---- MODULE Spec2Model ----
(***************************************************************************)
(* A model of modules/pam_namespace/pam_namespace.c (Linux-PAM): the       *)
(* polyinstantiation engine run at pam_sm_open_session and                 *)
(* pam_sm_close_session.                                                   *)
(*                                                                         *)
(* Strings are sequences of one-character strings, so that strcmp, strstr, *)
(* strchr, strncmp and strcat are computed as the C code computes them.    *)
(* A configuration line is the sequence of its whitespace-separated        *)
(* tokens (what strtok_r yields after the comment and newline are cut).    *)
(* Memory allocation is taken to succeed.                                  *)
(***************************************************************************)
EXTENDS Integers, Sequences, FiniteSets, TLC

(***************************************************************************)
(* Bounds of the model.                                                    *)
(***************************************************************************)
MaxLines == 2          \* lines in the configuration file

(***************************************************************************)
(* Return codes (security/_pam_types.h) and limits.                        *)
(***************************************************************************)
PAM_SUCCESS == 0
PAM_SERVICE_ERR == 3
PAM_SYSTEM_ERR == 4
PAM_SESSION_ERR == 14
PATH_MAX == 4096

NULL == <<"NULL">>     \* the null string pointer; no string of the model equals it
NULLP == [null |-> TRUE]   \* the null pointer to a structure

(***************************************************************************)
(* C string functions.                                                     *)
(***************************************************************************)
strlen(s) == Len(s)

\* strstr finding nothing
strstr_never(hay, needle) == 0

\* strstr: index of the first occurrence of needle in hay, 0 if there is none
strstr(hay, needle) ==
    LET hits == {i \in 1..(Len(hay) - Len(needle) + 1) :
                    SubSeq(hay, i, i + Len(needle) - 1) = needle}
    IN IF hits = {} THEN 0 ELSE CHOOSE i \in hits : \A j \in hits : i <= j

\* strchr: index of the first occurrence of character c in s, 0 if none
strchr(s, c) == strstr(s, <<c>>)

\* strrchr: index of the last occurrence of character c in s, 0 if none
strrchr(s, c) ==
    LET hits == {i \in 1..Len(s) : s[i] = c}
    IN IF hits = {} THEN 0 ELSE CHOOSE i \in hits : \A j \in hits : i >= j

\* the character at position i of the C string s (its terminator past the end)
NUL == "\\0"
CharAt(s, i) == IF i <= Len(s) THEN s[i] ELSE NUL

\* strncmp(a, b, n) == 0
strncmp_eq(a, b, n) ==
    \A i \in 1..n :
        (\A k \in 1..(i-1) : CharAt(a, k) # NUL) => CharAt(a, i) = CharAt(b, i)

\* the text s with the 5 characters at position i replaced by r
\* (the sprintf("%s%s%s", prefix, r, tptr+5) of process_line)
Expand5(s, i, r) == SubSeq(s, 1, i - 1) \o r \o SubSeq(s, i + 5, Len(s))

(***************************************************************************)
(* The words the code compares against.                                    *)
(***************************************************************************)
sHOME   == <<"$","H","O","M","E">>
sUSER   == <<"$","U","S","E","R">>
sDotDot == <<".",".">>
sXXXXXX == <<"X","X","X","X","X","X">>
kwUser    == <<"u","s","e","r">>
kwTmpdir  == <<"t","m","p","d","i","r">>
kwTmpfs   == <<"t","m","p","f","s">>
kwLevel   == <<"l","e","v","e","l">>
kwContext == <<"c","o","n","t","e","x","t">>

\* enum polymethod
NONE == "NONE"
USER == "USER"
CONTEXT == "CONTEXT"
LEVEL == "LEVEL"
TMPDIR == "TMPDIR"
TMPFS == "TMPFS"

\* enum unmnt_op
NO_UNMNT == "NO_UNMNT"
UNMNT_REMNT == "UNMNT_REMNT"
UNMNT_ONLY == "UNMNT_ONLY"

(***************************************************************************)
(* The identity resolver: pam_modutil_getpwnam over a passwd database pw,  *)
(* a set of records [name, uid, dir].                                      *)
(***************************************************************************)
getpwnam(pw, name) ==
    IF \E e \in pw : e.name = name
    THEN CHOOSE e \in pw : e.name = name
    ELSE NULLP

(***************************************************************************)
(* process_line: one line of namespace.conf.                               *)
(* Returns [rv, ent]: the return value and the entry handed to             *)
(* add_polydir_entry (NULL when nothing is added).                         *)
(***************************************************************************)

\* the names of the override field, cut at each ',' (lines 308-336)
RECURSIVE SplitNames(_)
SplitNames(ustr) ==
    LET c == strchr(ustr, ",")
    IN IF c = 0 THEN <<ustr>>
       ELSE <<SubSeq(ustr, 1, c - 1)>> \o SplitNames(SubSeq(ustr, c + 1, Len(ustr)))

\* the uids of the names that resolve, in order; unknown names are dropped
RECURSIVE ResolveUids(_, _)
ResolveUids(pw, names) ==
    IF names = <<>> THEN <<>>
    ELSE LET pwd == getpwnam(pw, Head(names))
         IN (IF pwd = NULLP THEN <<>> ELSE <<pwd.uid>>) \o ResolveUids(pw, Tail(names))

\* lines 243-279: the method keyword
MethodOf(method, ctxt_based_inst) ==
    IF method = kwUser THEN USER
    ELSE IF method = kwTmpdir THEN TMPDIR
    ELSE IF method = kwTmpfs THEN TMPFS
    ELSE IF method = kwLevel THEN (IF ctxt_based_inst THEN LEVEL ELSE USER)
    ELSE IF method = kwContext THEN (IF ctxt_based_inst THEN CONTEXT ELSE USER)
    ELSE NONE

\* the skipping: label failing the load whatever the flags
Skipping_fatal(flags) == [rv |-> PAM_SERVICE_ERR, ent |-> NULLP]

\* the skipping: label (lines 351-355)
Skipping(flags) ==
    [rv |-> IF flags.ign_config_err THEN 0 ELSE PAM_SERVICE_ERR, ent |-> NULLP]

\* IllegalMethod letting every method through
IllegalMethod_accepted(meth) == FALSE

\* 276: poly.method == NONE
IllegalMethod(meth) == meth = NONE

process_line(line, home, user, flags, pw) ==
    IF Len(line) = 0 THEN [rv |-> 0, ent |-> NULLP]
    ELSE IF Len(line) < 3 THEN Skipping(flags)
    ELSE
      LET dir0   == line[1]
          ip0    == line[2]
          method == line[3]
          uids   == IF Len(line) >= 4 THEN line[4] ELSE NULL
          dir    == IF dir0 = sHOME THEN home ELSE dir0
          iu     == strstr(ip0, sUSER)
          ip1    == IF iu # 0 THEN Expand5(ip0, iu, user) ELSE ip0
          ih     == strstr(ip1, sHOME)
          instance_prefix == IF ih # 0 THEN Expand5(ip1, ih, home) ELSE ip1
          meth   == MethodOf(method, flags.ctxt_based_inst)
          poly_prefix == IF meth = TMPDIR THEN instance_prefix \o sXXXXXX
                         ELSE instance_prefix
          excl   == uids # NULL /\ Len(uids) > 0 /\ uids[1] = "~"
          ulist  == IF uids = NULL THEN <<>>
                    ELSE ResolveUids(pw, SplitNames(IF excl THEN Tail(uids) ELSE uids))
      IN IF strlen(dir) >= PATH_MAX \/ strlen(instance_prefix) >= PATH_MAX
           THEN Skipping(flags)
         ELSE IF meth = TMPDIR /\ PATH_MAX - strlen(instance_prefix) < 7
           THEN Skipping(flags)
         ELSE IF IllegalMethod(meth)
           THEN Skipping(flags)
         ELSE IF CharAt(dir, 1) # "/"
                 \/ (meth # TMPFS /\ CharAt(instance_prefix, 1) # "/")
           THEN Skipping(flags)
         ELSE IF strstr(dir, sDotDot) # 0 \/ strstr(instance_prefix, sDotDot) # 0
           THEN Skipping(flags)
         ELSE [rv  |-> 0,
               ent |-> [dir |-> dir, instance_prefix |-> poly_prefix,
                        method |-> meth, uid |-> ulist,
                        num_uids |-> Len(ulist), exclusive |-> excl]]

(***************************************************************************)
(* parse_config_file: process the lines in order, appending each accepted  *)
(* entry at the tail (add_polydir_entry); stop at the first line that      *)
(* returns non-zero.  Returns [rv, list]. The entries added before a       *)
(* failing line stay in the list.                                          *)
(***************************************************************************)
\* add_polydir_entry linking the new entry at the head of the list
add_polydir_entry_at_head(list, ent) == <<ent>> \o list

add_polydir_entry(list, ent) == Append(list, ent)

RECURSIVE ParseLines(_, _, _, _, _, _)
ParseLines(lines, list, home, user, flags, pw) ==
    IF lines = <<>> THEN [rv |-> PAM_SUCCESS, list |-> list]
    ELSE LET r == process_line(Head(lines), home, user, flags, pw)
         IN IF r.rv # 0 THEN [rv |-> PAM_SERVICE_ERR, list |-> list]
            ELSE ParseLines(Tail(lines),
                            IF r.ent = NULLP THEN list
                            ELSE add_polydir_entry(list, r.ent),
                            home, user, flags, pw)

\* cfg is the configuration file: fopen_ok tells whether it can be opened,
\* lines are its lines
parse_config_file(cfg, user, flags, pw) ==
    LET cpwd == getpwnam(pw, user)
    IN IF cpwd = NULLP THEN [rv |-> PAM_SESSION_ERR, list |-> <<>>]
       ELSE IF ~cfg.fopen_ok THEN [rv |-> PAM_SERVICE_ERR, list |-> <<>>]
       ELSE ParseLines(cfg.lines, <<>>, cpwd.dir, user, flags, pw)

(***************************************************************************)
(* ns_override: scan the override uids of the entry.                       *)
(***************************************************************************)
\* OverrideScan deciding on the first uid alone, without the inversion
OverrideScan_first_uid(polyptr, uid, i) ==
    IF i > polyptr.num_uids THEN polyptr.exclusive
    ELSE uid = polyptr.uid[i]

RECURSIVE OverrideScan(_, _, _)
OverrideScan(polyptr, uid, i) ==
    IF i > polyptr.num_uids THEN polyptr.exclusive
    ELSE IF uid = polyptr.uid[i] THEN ~polyptr.exclusive
    ELSE OverrideScan(polyptr, uid, i + 1)

\* ns_override reading the uids as a plain override list
ns_override_no_exclusive(polyptr, uid) ==
    \E i \in 1..polyptr.num_uids : uid = polyptr.uid[i]

ns_override(polyptr, uid) == OverrideScan(polyptr, uid, 1)

(***************************************************************************)
(* md5hash: the 16 digest bytes printed as 32 hexadecimal characters.      *)
(* MD5 itself stands outside this file; MD5 below is a deterministic       *)
(* 16-byte function of the characters of the name.                         *)
(***************************************************************************)
MD5_DIGEST_LENGTH == 16
NAMESPACE_MAX_DIR_LEN == 80

Alphabet == <<"/", ".", "_", "-", "$", "~", ",",
              "0", "1", "2", "3", "4", "5", "6", "7", "8", "9",
              "a", "b", "c", "d", "e", "f", "g", "h", "i", "j", "k", "l", "m",
              "n", "o", "p", "q", "r", "s", "t", "u", "v", "w", "x", "y", "z",
              "H", "O", "M", "E", "U", "S", "R", "X", ":">>
CharCode(c) == CHOOSE i \in 1..Len(Alphabet) : Alphabet[i] = c

\* the sum of (j + k) * CharCode(s[j]) for j in lo..hi, by halves
RECURSIVE RangeSum(_, _, _, _)
RangeSum(s, lo, hi, k) ==
    IF lo > hi THEN 0
    ELSE IF lo = hi THEN (lo + k) * CharCode(s[lo])
    ELSE RangeSum(s, lo, (lo + hi) \div 2, k)
            + RangeSum(s, ((lo + hi) \div 2) + 1, hi, k)

WeightedSum(s, i, k) == RangeSum(s, i, Len(s), k)

MD5(s) == [k \in 1..MD5_DIGEST_LENGTH |-> (17 * k + Len(s) + WeightedSum(s, 1, k)) % 256]

HexDigits == <<"0", "1", "2", "3", "4", "5", "6", "7", "8", "9",
               "a", "b", "c", "d", "e", "f">>
\* snprintf(to, 3, "%02x", byte)
Hex02(b) == <<HexDigits[(b \div 16) + 1], HexDigits[(b % 16) + 1]>>

RECURSIVE HexOf(_, _)
HexOf(digest, i) ==
    IF i > MD5_DIGEST_LENGTH THEN <<>>
    ELSE Hex02(digest[i]) \o HexOf(digest, i + 1)

md5hash(instname) == HexOf(MD5(instname), 1)

(***************************************************************************)
(* poly_name: the instance name of an entry.  ctx is what the security     *)
(* context provider answers: ctx.ok (form_context and the translation to   *)
(* a raw context succeed) and ctx.rawcon (the raw instance context).       *)
(* Returns [rc, i_name, has_icontext].                                     *)
(***************************************************************************)
\* TruncName printing the whole name before the hash
TruncName_no_cut(name, n, hash) == name \o <<"_">> \o hash

\* asprintf("%.*s_%s", n, name, hash)
TruncName(name, n, hash) ==
    SubSeq(name, 1, IF n < Len(name) THEN n ELSE Len(name)) \o <<"_">> \o hash

poly_name(polyptr, user, flags, ctx) ==
    LET fail == [rc |-> PAM_SESSION_ERR, i_name |-> NULL, has_icontext |-> FALSE]
        hashed(n) ==
            IF flags.gen_hash \/ strlen(n) > NAMESPACE_MAX_DIR_LEN
            THEN LET hash == md5hash(n)
                 IN IF flags.gen_hash THEN hash
                    ELSE TruncName(n, NAMESPACE_MAX_DIR_LEN - 1 - strlen(hash), hash)
            ELSE n
    IN IF flags.selinux_enabled /\ ~ctx.ok THEN fail
       ELSE IF polyptr.method = USER
         THEN [rc |-> PAM_SUCCESS, i_name |-> hashed(user), has_icontext |-> FALSE]
       ELSE IF polyptr.method \in {LEVEL, CONTEXT}
         THEN IF ~flags.selinux_enabled \/ ~ctx.ok THEN fail
              ELSE [rc |-> PAM_SUCCESS,
                    i_name |-> hashed(ctx.rawcon \o <<"_">> \o user),
                    has_icontext |-> TRUE]
       ELSE IF polyptr.method \in {TMPDIR, TMPFS}
         THEN [rc |-> PAM_SUCCESS, i_name |-> <<>>, has_icontext |-> FALSE]
       ELSE fail

(***************************************************************************)
(* The file system is a function from the paths that exist to their        *)
(* attributes [uid, gid, mode].  A system call made by the code is         *)
(* recorded as an event [op, path, src, res]; res is a string: "ok",       *)
(* "fail", an errno name, or for a child process how it ended.  The        *)
(* returns of inst_init, create_dirs and ns_setup are recorded too, as     *)
(* events "inst_init", "create_dirs" and "ns_setup" with res "ok" for      *)
(* PAM_SUCCESS and "fail" for any other value.                             *)
(***************************************************************************)
Ev(op, path, src, res) == [op |-> op, path |-> path, src |-> src, res |-> res]
Ret(fn, path, rc) == Ev(fn, path, <<>>, IF rc = 0 THEN "ok" ELSE "fail")
\* the events evs as log entries of entry number i of the list (0: no entry)
Tag(evs, i) == [k \in 1..Len(evs) |->
                  [rule |-> i, op |-> evs[k].op, path |-> evs[k].path,
                   src |-> evs[k].src, res |-> evs[k].res]]

FsAdd(f, p, a) == [q \in (DOMAIN f) \cup {p} |-> IF q = p THEN a ELSE f[q]]
\* FsDel leaving the directory in place
FsDel_keep(f, p) == f

FsDel(f, p)    == [q \in (DOMAIN f) \ {p} |-> f[q]]

S_IRUSR == 256      \* 0400, the mode mkdir is given
S_IRWXU == 448      \* 0700, the mode of a directory made by mkdtemp
ProcAttr(mode) == [uid |-> 0, gid |-> 0, mode |-> mode]

sTmpfs == <<"t","m","p","f","s">>

(***************************************************************************)
(* inst_init: run the namespace.init script.                               *)
(* e.script tells what the environment does:                               *)
(*   "sigerr"   signal() returns SIG_ERR                                   *)
(* The calls of access() on the script are recorded as events "access"    *)
(* with src <<"F_OK">> or <<"X_OK">>.                                      *)
(*   "absent"   access(F_OK) fails                                         *)
(*   "noexec"   access(X_OK) fails                                         *)
(*   "forkfail" fork() returns -1                                          *)
(*   "waitfail" waitpid() returns -1 with an errno other than EINTR        *)
(*   "run"      the child runs; e.status is its wait status                *)
(*              [exited, code, signaled]; a failing execl or setexeccon    *)
(*              makes the child exit(1)                                    *)
(* Returns [rc, evs].                                                      *)
(***************************************************************************)
WIFEXITED(status) == status.exited
WIFSIGNALED(status) == IF status.signaled THEN 1 ELSE 0
StatusName(status) ==
    IF status.signaled THEN "signaled"
    ELSE IF status.code = 0 THEN "exit0" ELSE "exit1"

\* the path of the init script (pam_namespace.h)
NAMESPACE_INIT_SCRIPT == <<"n","a","m","e","s","p","a","c","e",".","i","n","i","t">>

\* NewdirArg telling the script the directory was there every time
NewdirArg_always_zero(newdir) == <<"0">>

\* NewdirArg telling the script the directory is new every time
NewdirArg_always_one(newdir) == <<"1">>

\* line 790: newdir ? "1" : "0"
NewdirArg(newdir) == IF newdir # 0 THEN <<"1">> ELSE <<"0">>

\* inst_init taking a script that is not executable for no script
inst_init_noexec_skipped(polyptr, ipath, user, newdir, e) ==
    [rc |-> PAM_SUCCESS,
     evs |-> <<Ev("access", NAMESPACE_INIT_SCRIPT, <<"F_OK">>, "ok"),
               Ev("access", NAMESPACE_INIT_SCRIPT, <<"X_OK">>, "fail"),
               Ret("inst_init", ipath, PAM_SUCCESS)>>]

inst_init(polyptr, ipath, user, newdir, e) ==
    LET args == <<polyptr.dir, ipath, NewdirArg(newdir), user>>
        R(rc, evs) == [rc |-> rc, evs |-> evs \o <<Ret("inst_init", ipath, rc)>>]
        exists == <<Ev("access", NAMESPACE_INIT_SCRIPT, <<"F_OK">>, "ok")>>
        executable == exists \o <<Ev("access", NAMESPACE_INIT_SCRIPT, <<"X_OK">>, "ok")>>
    IN IF e.script = "sigerr" THEN R(PAM_SESSION_ERR, <<>>)
       ELSE IF e.script = "absent"
         THEN R(PAM_SUCCESS, <<Ev("access", NAMESPACE_INIT_SCRIPT, <<"F_OK">>, "fail")>>)
       ELSE IF e.script = "noexec"
         THEN R(PAM_SESSION_ERR,
                exists \o <<Ev("access", NAMESPACE_INIT_SCRIPT, <<"X_OK">>, "fail")>>)
       ELSE IF e.script = "forkfail"
         THEN R(PAM_SESSION_ERR, executable \o <<Ev("fork", ipath, args, "forkfail")>>)
       ELSE IF e.script = "waitfail"
         THEN R(PAM_SESSION_ERR, executable \o <<Ev("fork", ipath, args, "waitfail")>>)
       ELSE IF ~WIFEXITED(e.status) \/ WIFSIGNALED(e.status) > 0
         THEN R(PAM_SESSION_ERR,
                executable \o <<Ev("fork", ipath, args, StatusName(e.status))>>)
       ELSE R(PAM_SUCCESS, executable \o <<Ev("fork", ipath, args, StatusName(e.status))>>)

(***************************************************************************)
(* check_inst_parent: e.fail = "parent" when the stat of the parent fails  *)
(* or the parent is not a directory; e.parent_mode is its permission bits. *)
(***************************************************************************)
check_inst_parent(flags, e) ==
    IF e.fail = "parent" THEN PAM_SESSION_ERR
    ELSE IF ~flags.ign_inst_parent_mode /\ e.parent_mode # 0 THEN PAM_SESSION_ERR
    ELSE PAM_SUCCESS

(***************************************************************************)
(* create_dirs.  e.fail names the system call that fails, or "none";       *)
(* e.suffix is what mkdtemp puts in place of XXXXXX.                       *)
(* Returns [rc, evs, fs, polyptr, ipath, newdir].                          *)
(***************************************************************************)
create_dirs(polyptr, ipath0, has_icontext, user, flags, f, e) ==
    LET R(rc, evs, f2, pp, ip, nd) ==
            [rc |-> rc, evs |-> evs \o <<Ret("create_dirs", ip, rc)>>,
             fs |-> f2, polyptr |-> pp, ipath |-> ip, newdir |-> nd]
        statbuf == f[polyptr.dir]
        f0 == f
        \* the part from "newdir = 1" on: open, label, fstat, fchown, fchmod
        Attrs(f1, pp, ip, evs0) ==
            IF e.fail = "open"
              THEN R(PAM_SESSION_ERR, evs0 \o <<Ev("rmdir", ip, <<>>, "ok")>>, FsDel(f1, ip), pp, ip, 1)
            ELSE IF flags.selinux_enabled /\ e.fail = "fsetfilecon"
              THEN R(PAM_SESSION_ERR,
                     evs0 \o <<Ev("fsetfilecon", ip, <<>>, "fail"), Ev("rmdir", ip, <<>>, "ok")>>,
                     FsDel(f1, ip), pp, ip, 1)
            ELSE LET evl == IF flags.selinux_enabled
                            THEN evs0 \o <<Ev("fsetfilecon", ip,
                                              IF has_icontext THEN <<"i">> ELSE <<"o">>, "ok")>>
                            ELSE evs0
                     newstatbuf == f1[ip]
                     needchown == newstatbuf.uid # statbuf.uid \/ newstatbuf.gid # statbuf.gid
                 IN IF e.fail = "fstat"
                      THEN R(PAM_SESSION_ERR, evl \o <<Ev("rmdir", ip, <<>>, "ok")>>,
                             FsDel(f1, ip), pp, ip, 1)
                    ELSE IF needchown /\ e.fail = "fchown"
                      THEN R(PAM_SESSION_ERR,
                             evl \o <<Ev("fchown", ip, <<>>, "fail"), Ev("rmdir", ip, <<>>, "ok")>>,
                             FsDel(f1, ip), pp, ip, 1)
                    ELSE LET evc == IF needchown
                                    THEN evl \o <<Ev("fchown", ip, <<>>, "ok")>> ELSE evl
                             f2 == IF needchown
                                   THEN FsAdd(f1, ip, [f1[ip] EXCEPT !.uid = statbuf.uid,
                                                                     !.gid = statbuf.gid])
                                   ELSE f1
                         IN IF e.fail = "fchmod"
                              THEN R(PAM_SESSION_ERR,
                                     evc \o <<Ev("fchmod", ip, <<>>, "fail"),
                                              Ev("rmdir", ip, <<>>, "ok")>>,
                                     FsDel(f2, ip), pp, ip, 1)
                            ELSE LET f3 == FsAdd(f2, ip, [f2[ip] EXCEPT
                                                            !.mode = statbuf.mode % 4096])
                                     h == inst_init(pp, ip, user, 1, e)
                                 IN R(h.rc, evc \o <<Ev("fchmod", ip, <<>>, "ok")>> \o h.evs,
                                      f3, pp, ip, 1)
    IN IF polyptr.dir \notin DOMAIN f \/ e.fail = "stat"
         THEN R(PAM_SESSION_ERR, <<>>, f, polyptr, ipath0, 0)
       ELSE IF check_inst_parent(flags, e) # 0
         THEN R(PAM_SESSION_ERR, <<>>, f, polyptr, ipath0, 0)
       ELSE IF polyptr.method = TMPDIR
         THEN LET n == Len(polyptr.instance_prefix)
                  made == SubSeq(polyptr.instance_prefix, 1, n - 6) \o e.suffix
              IN IF e.fail = "mkdtemp" \/ made \in DOMAIN f
                      \/ SubSeq(polyptr.instance_prefix, n - 5, n) # sXXXXXX
                   THEN R(PAM_SESSION_ERR, <<Ev("mkdtemp", polyptr.instance_prefix, <<>>, "fail")>>,
                          f, [polyptr EXCEPT !.method = NONE], ipath0, 0)
                 ELSE Attrs(FsAdd(f, made, ProcAttr(S_IRWXU)),
                            [polyptr EXCEPT !.instance_prefix = made], made,
                            <<Ev("mkdtemp", made, <<>>, "ok")>>)
       ELSE IF ipath0 \in DOMAIN f0
         THEN \* mkdir fails with EEXIST: goto inst_init with newdir = 0
              LET h == inst_init(polyptr, ipath0, user, 0, e)
              IN R(h.rc, <<Ev("mkdir", ipath0, <<>>, "EEXIST")>> \o h.evs, f0, polyptr, ipath0, 0)
       ELSE IF e.fail = "mkdir"
         THEN R(PAM_SESSION_ERR, <<Ev("mkdir", ipath0, <<>>, "EACCES")>>, f0, polyptr, ipath0, 0)
       ELSE Attrs(FsAdd(f0, ipath0, ProcAttr(S_IRUSR)), polyptr, ipath0,
                  <<Ev("mkdir", ipath0, <<>>, "ok")>>)

(***************************************************************************)
(* ns_setup: polyinstantiate one entry.  e.pre tells whether the instance  *)
(* directory exists although fs does not list it yet (left by an earlier   *)
(* session): "no" or "other".  e.mount_ok tells whether the *)
(* kernel accepts the mount; a bind mount also needs its source and its    *)
(* target to exist.                                                        *)
(* Returns [retval, evs, fs, polyptr, mnt]; mnt holds the mount made.      *)
(***************************************************************************)
\* the attributes of a directory left by an earlier session
PreAttr == [uid |-> 0, gid |-> 0, mode |-> 0]

ns_setup(polyptr, user, flags, f, e) ==
    LET R(rv, evs, f2, pp, mnt) ==
            [retval |-> rv, evs |-> evs \o <<Ret("ns_setup", polyptr.dir, rv)>>,
             fs |-> f2, polyptr |-> pp, mnt |-> mnt]
    IN IF polyptr.method = TMPFS
       THEN IF ~e.mount_ok \/ polyptr.dir \notin DOMAIN f
              THEN R(PAM_SESSION_ERR, <<Ev("mount", polyptr.dir, sTmpfs, "fail")>>,
                     f, polyptr, <<>>)
            ELSE LET h == inst_init(polyptr, sTmpfs, user, 1, e)
                 IN R(h.rc, <<Ev("mount", polyptr.dir, sTmpfs, "ok")>> \o h.evs,
                      f, polyptr, <<[dst |-> polyptr.dir, src |-> sTmpfs]>>)
       ELSE
         LET \* from the call of create_dirs on (1025-1046)
             Mount(cd) ==
                 IF cd.rc < 0
                   THEN R(PAM_SESSION_ERR, cd.evs, cd.fs, cd.polyptr, <<>>)
                 ELSE IF ~e.mount_ok \/ cd.ipath \notin DOMAIN cd.fs
                         \/ polyptr.dir \notin DOMAIN cd.fs
                   THEN R(PAM_SESSION_ERR,
                          cd.evs \o <<Ev("mount", polyptr.dir, cd.ipath, "fail")>>,
                          cd.fs, cd.polyptr, <<>>)
                 ELSE R(cd.rc, cd.evs \o <<Ev("mount", polyptr.dir, cd.ipath, "ok")>>,
                        cd.fs, cd.polyptr, <<[dst |-> polyptr.dir, src |-> cd.ipath]>>)
             Create(inst_dir, has_icontext) ==
                 Mount(create_dirs(polyptr, inst_dir, has_icontext, user, flags,
                                   IF inst_dir \notin DOMAIN f /\ e.pre # "no"
                                      /\ polyptr.method # TMPDIR
                                   THEN FsAdd(f, inst_dir, PreAttr) ELSE f,
                                   e))
             Named(pn) ==
                 IF pn.rc # 0 THEN R(PAM_SESSION_ERR, <<>>, f, polyptr, <<>>)
                 ELSE Create(polyptr.instance_prefix \o pn.i_name, pn.has_icontext)
         IN Named(poly_name(polyptr, user, flags, e.ctx))

(***************************************************************************)
(* cwd_in and the parent of the mount point (setup_namespace, 1268-1274).  *)
(***************************************************************************)
cwd_in(dir, cwd, getcwd_ok) ==
    IF ~getcwd_ok THEN -1
    ELSE IF strncmp_eq(cwd, dir, strlen(dir)) THEN 1
    ELSE 0

poly_parent(dir) ==
    LET fptr == strchr(dir, "/")
        cptr == strrchr(dir, "/")
    IN IF fptr # 0 /\ cptr # 0 /\ fptr = cptr THEN <<"/">>
       ELSE IF cptr # 0 THEN SubSeq(dir, 1, cptr - 1)
       ELSE dir

(***************************************************************************)
(* cleanup_tmpdirs: run "rm -rf" on the instance directory of every        *)
(* TMPDIR entry that exists.  ce.sig_ok: signal() succeeds; ce.child[i]    *)
(* is what happens to the child of entry i: "removed", "rmfail" (the       *)
(* child ends without removing), "forkfail", "waitfail".                   *)
(* Returns [rc, evs, fs]; evs are log entries.                             *)
(***************************************************************************)
RECURSIVE CleanupLoop(_, _, _, _, _)
CleanupLoop(list, i, f, ce, evs) ==
    IF i > Len(list) THEN [rc |-> PAM_SUCCESS, evs |-> evs, fs |-> f]
    ELSE LET pptr == list[i]
         IN IF pptr.method = TMPDIR /\ pptr.instance_prefix \in DOMAIN f
            THEN IF ce.child[i] = "forkfail"
                   THEN [rc |-> PAM_SESSION_ERR, fs |-> f,
                         evs |-> evs \o Tag(<<Ev("rm", pptr.instance_prefix, <<>>, "forkfail")>>, i)]
                 ELSE IF ce.child[i] = "waitfail"
                   THEN [rc |-> PAM_SESSION_ERR, fs |-> f,
                         evs |-> evs \o Tag(<<Ev("rm", pptr.instance_prefix, <<>>, "waitfail")>>, i)]
                 ELSE IF ce.child[i] = "rmfail"
                   THEN CleanupLoop(list, i + 1, f, ce,
                            evs \o Tag(<<Ev("rm", pptr.instance_prefix, <<>>, "fail")>>, i))
                 ELSE CleanupLoop(list, i + 1, FsDel(f, pptr.instance_prefix), ce,
                            evs \o Tag(<<Ev("rm", pptr.instance_prefix, <<>>, "ok")>>, i))
            ELSE CleanupLoop(list, i + 1, f, ce, evs)

cleanup_tmpdirs(list, f, ce) ==
    IF ~ce.sig_ok THEN [rc |-> PAM_SESSION_ERR, evs |-> <<>>, fs |-> f]
    ELSE CleanupLoop(list, 1, f, ce, <<>>)

(***************************************************************************)
(* The arguments of the module (the loops at 1399-1419 and 1499-1506).     *)
(* argv is a sequence of words.  Returns [rv, flags, unmnt]; rv is         *)
(* non-zero when the loop returns from the entry point.                    *)
(***************************************************************************)
PAMNS_SELINUX_ENABLED == 16384

\* the C operator ~ on an int
BitNot(v) == -v - 1

RECURSIVE OpenArgs(_, _, _, _)
OpenArgs(argv, i, flags, unmnt) ==
    IF i > Len(argv) THEN [rv |-> 0, flags |-> flags, unmnt |-> unmnt]
    ELSE LET a == argv[i]
             fl == [flags EXCEPT
                      !.gen_hash = @ \/ a = "gen_hash",
                      !.ign_config_err = @ \/ a = "ignore_config_error",
                      !.ign_inst_parent_mode = @ \/ a = "ignore_instance_parent_mode"]
             un == IF a = "unmnt_only" THEN UNMNT_ONLY
                   ELSE IF a = "unmnt_remnt" THEN UNMNT_REMNT
                   ELSE unmnt
         IN IF a = "require_selinux"
               /\ BitNot(IF fl.selinux_enabled THEN PAMNS_SELINUX_ENABLED ELSE 0) # 0
            THEN [rv |-> PAM_SESSION_ERR, flags |-> fl, unmnt |-> un]
            ELSE OpenArgs(argv, i + 1, fl, un)

RECURSIVE CloseArgs(_, _, _)
CloseArgs(argv, i, flags) ==
    IF i > Len(argv) THEN flags
    ELSE CloseArgs(argv, i + 1,
            [flags EXCEPT
               !.ign_config_err = @ \/ argv[i] = "ignore_config_error",
               !.no_unmount_on_close = @ \/ argv[i] = "no_unmount_on_close"])

\* idata.flags as the entry points initialise it (1388-1396, 1488-1496)
InitFlags(selinux, ctxt) ==
    [gen_hash |-> FALSE, ign_config_err |-> FALSE, ign_inst_parent_mode |-> FALSE,
     no_unmount_on_close |-> FALSE, selinux_enabled |-> selinux,
     ctxt_based_inst |-> ctxt]

(***************************************************************************)
(* setup_namespace, lines 1166-1207: the requesting uid and the scan that  *)
(* decides whether a private namespace is needed.                          *)
(***************************************************************************)
\* ruser_name is the PAM_RUSER item (NULL when unset), item_ok the return
\* of pam_get_item, real_uid what getuid() returns
\* ReqUid without the lookup of PAM_RUSER
ReqUid_no_lookup(ruser_name, item_ok, pw, real_uid) == real_uid

ReqUid(ruser_name, item_ok, pw, real_uid) ==
    IF ruser_name = NULL \/ ~item_ok THEN real_uid
    ELSE LET pwd == getpwnam(pw, ruser_name)
         IN IF pwd # NULLP THEN pwd.uid ELSE real_uid

\* NeedPoly without the unmnt == NO_UNMNT test
RECURSIVE NeedPoly_no_mode(_, _, _, _, _)
NeedPoly_no_mode(list, i, uid, requid, unmnt) ==
    IF i > Len(list) THEN 0
    ELSE IF ns_override(list[i], uid) /\ ns_override(list[i], requid)
      THEN NeedPoly_no_mode(list, i + 1, uid, requid, unmnt)
    ELSE 1

RECURSIVE NeedPoly(_, _, _, _, _)
NeedPoly(list, i, uid, requid, unmnt) ==
    IF i > Len(list) THEN 0
    ELSE IF ns_override(list[i], uid)
      THEN IF unmnt = NO_UNMNT \/ ns_override(list[i], requid)
             THEN NeedPoly(list, i + 1, uid, requid, unmnt)
           ELSE 1
    ELSE 1

\* DirUnmnt skipping every entry overridden for the session uid
DirUnmnt_session_only(pptr, uid, requid, unmnt) ==
    IF ns_override(pptr, uid) THEN "skip" ELSE unmnt

\* lines 1236-1243: what the apply loop does with an entry:
\* "skip" (continue) or the dir_unmnt it uses
DirUnmnt(pptr, uid, requid, unmnt) ==
    IF ns_override(pptr, uid)
    THEN IF unmnt = NO_UNMNT \/ ns_override(pptr, requid) THEN "skip"
         ELSE UNMNT_ONLY
    ELSE unmnt

(***************************************************************************)
(* The state.                                                              *)
(*   sess      what the session is given: the PAM_USER and PAM_RUSER items,*)
(*             getuid(), the passwd database, the configuration file and   *)
(*             whether SELinux is enabled / an exec context is set         *)
(*   pc        where the call chain stands                                 *)
(*   idata     struct instance_data of the running entry point             *)
(*   unmnt     the unmnt argument of setup_namespace                       *)
(*   req_uid   setup_namespace's req_uid                                   *)
(*   idx       position of pptr in the list (1-based)                      *)
(*   retval    retval of setup_namespace / pam_sm_open_session, and of     *)
(*             orig_namespace in pam_sm_close_session                      *)
(*   polydirs  the entries of the linked list built by the open call       *)
(*   frees     how many times del_polydir_list ran on that list            *)
(*   slot      the NAMESPACE_POLYDIR_DATA item: "NULL" or "list"           *)
(*   fs, mounts, cwd   directories, the mounts made, the working directory *)
(*   log       the system calls of the running entry point, in order       *)
(*   result    the name of what the last entry point returned ("none"      *)
(*             before any, "crash" when it did not return)                 *)
(*   sigchld   the action of the process for SIGCHLD: [handler, flags]     *)
(***************************************************************************)
VARIABLES sess, pc, idata, unmnt, req_uid, idx, retval, polydirs, frees,
          slot, fs, mounts, cwd, log, result, sigchld

vars == <<sess, pc, idata, unmnt, req_uid, idx, retval, polydirs, frees,
          slot, fs, mounts, cwd, log, result, sigchld>>

(***************************************************************************)
(* SIGCHLD.  signal(SIGCHLD, handler) of the C library on the action act:  *)
(* it returns the handler that was installed and installs the new one with *)
(* the flags signal() gives (SA_RESTART); the flags and the mask of an     *)
(* action set with sigaction are not kept.  SigchldAfter is what inst_init *)
(* (766-771, 816) and cleanup_tmpdirs (1101-1106, 1143) leave: when the    *)
(* first signal() fails nothing is installed, and the signal() at the out: *)
(* label, given SIG_ERR, fails too.                                        *)
(***************************************************************************)
SignalFlags == {"SA_RESTART"}
signal(act, handler) ==
    [ret |-> act.handler, act |-> [handler |-> handler, flags |-> SignalFlags]]

SigchldAfter(before, sig_ok) ==
    IF ~sig_ok THEN before
    ELSE LET osighand == signal(before, "SIG_DFL").ret
         IN signal(signal(before, "SIG_DFL").act, osighand).act

\* the action in force when nothing but signal(SIGCHLD, SIG_DFL) set it
SigchldDefault == [handler |-> "SIG_DFL", flags |-> SignalFlags]

(***************************************************************************)
(* The names, directories and lines the model draws its inputs from.       *)
(***************************************************************************)
nAnn   == <<"a","n","n">>
nBob   == <<"b","o","b">>
nGhost == <<"g","h","o","s","t">>
n1000  == <<"1","0","0","0">>
pRoot  == <<"/">>
pTmp   == <<"/","t","m","p">>
pVar   == <<"/","v","a","r">>
pHomeAnn == <<"/","h","/","a","n","n">>
pHomeBob == <<"/","h","/","b","o","b">>

PwBase == {[name |-> nAnn, uid |-> 1000, dir |-> pHomeAnn],
           [name |-> nBob, uid |-> 2000, dir |-> pHomeBob]}

\* "/tmp /i/t- user ann"
LineTmpUser == <<pTmp, <<"/","i","/","t","-">>, kwUser, nAnn>>
\* "/var /i/v- tmpdir ~ann"
LineVarTmpdir == <<pVar, <<"/","i","/","v","-">>, kwTmpdir, <<"~">> \o nAnn>>
\* "$HOME tmpfs tmpfs ghost,bob"
LineHomeTmpfs == <<sHOME, sTmpfs, kwTmpfs, nGhost \o <<",">> \o nBob>>
\* "/tmp /i/t-" : the method is missing
LineShort == <<pTmp, <<"/","i","/","t","-">>>>

ConfLines == {LineTmpUser, LineVarTmpdir, LineHomeTmpfs, LineShort}

RECURSIVE SeqsUpTo(_, _)
SeqsUpTo(S, n) ==
    IF n = 0 THEN {<<>>}
    ELSE LET shorter == SeqsUpTo(S, n - 1)
         IN shorter \cup {Append(q, x) : q \in {r \in shorter : Len(r) = n - 1}, x \in S}

\* the directories that exist at the start, with owner, group and mode
InitFs ==
    LET dirs == {pRoot, pTmp, pVar, pHomeAnn, pHomeBob}
    IN [d \in dirs |->
          IF d = pHomeAnn THEN [uid |-> 1000, gid |-> 1000, mode |-> 448]
          ELSE IF d = pHomeBob THEN [uid |-> 2000, gid |-> 2000, mode |-> 448]
          ELSE IF d \in {pTmp, pVar} THEN [uid |-> 0, gid |-> 0, mode |-> 1023]
          ELSE [uid |-> 0, gid |-> 0, mode |-> 493]]

OpenArgvs == {<<>>, <<"unmnt_remnt">>, <<"unmnt_only">>,
              <<"ignore_config_error", "gen_hash", "ignore_instance_parent_mode">>,
              <<"require_selinux">>}
CloseArgvs == {<<>>, <<"no_unmount_on_close">>}

InitWith(Users, Rusers, RealUids, Pws, Cfgs, Cwds, Selinux) ==
    /\ sess \in [user_name : Users, ruser : Rusers, real_uid : RealUids,
                 pw : Pws, cfg : Cfgs, selinux : Selinux]
    /\ pc = "idle"
    /\ idata = [flags |-> InitFlags(FALSE, FALSE), user |-> <<>>, uid |-> 0,
                polydirs_ptr |-> "NULL"]
    /\ unmnt = NO_UNMNT
    /\ req_uid = 0
    /\ idx = 0
    /\ retval = 0
    /\ polydirs = <<>>
    /\ frees = 0
    /\ slot = "NULL"
    /\ fs = InitFs
    /\ mounts = <<>>
    /\ cwd \in Cwds
    /\ log = <<>>
    /\ result = "none"
    /\ sigchld = SigchldDefault

Init ==
    InitWith({nAnn, nBob}, {NULL, nAnn}, {0}, {PwBase},
             {[fopen_ok |-> TRUE, lines |-> l] : l \in SeqsUpTo(ConfLines, MaxLines)},
             {pTmp}, {"off", "on"})

(***************************************************************************)
(* What the environment can answer to one iteration of the loops.          *)
(***************************************************************************)
Exit0 == [exited |-> TRUE, code |-> 0, signaled |-> FALSE]
Exit1 == [exited |-> TRUE, code |-> 1, signaled |-> FALSE]
Killed == [exited |-> FALSE, code |-> 0, signaled |-> TRUE]

\* the cwd check, the chdir and the umount of one iteration
UmountEnvBase == [getcwd_ok |-> TRUE, chdir_ok |-> TRUE, umount |-> "ok"]
UmountEnvs ==
    {[UmountEnvBase EXCEPT !.getcwd_ok = FALSE]}
    \cup {[UmountEnvBase EXCEPT !.chdir_ok = c, !.umount = u] :
             c \in BOOLEAN, u \in {"ok", "EINVAL", "EBUSY"}}

\* the calls of ns_setup
SetupEnvBase ==
    [fail |-> "none", parent_mode |-> 0, script |-> "absent", status |-> Exit0,
     mount_ok |-> TRUE, pre |-> "no", suffix |-> <<"a","a","a","a","a","a">>,
     ctx |-> [ok |-> TRUE, rawcon |-> <<"s","0">>]]
FailPoints == {"stat", "parent", "mkdtemp", "mkdir", "open", "fsetfilecon",
               "fstat", "fchown", "fchmod"}
Scripts == {[script |-> sc, status |-> Exit0] :
               sc \in {"sigerr", "absent", "noexec", "forkfail", "waitfail"}}
           \cup {[script |-> "run", status |-> st] : st \in {Exit0, Exit1, Killed}}
SetupEnvs ==
    {[SetupEnvBase EXCEPT !.fail = fp, !.pre = pr, !.mount_ok = m] :
        fp \in FailPoints, pr \in {"no", "other"}, m \in BOOLEAN}
    \cup {[SetupEnvBase EXCEPT !.ctx.ok = FALSE]}
    \cup {[SetupEnvBase EXCEPT !.parent_mode = pm, !.pre = pr, !.mount_ok = m,
                               !.script = sc.script, !.status = sc.status] :
             pm \in {0, 493}, pr \in {"no", "other"}, m \in BOOLEAN, sc \in Scripts}

\* cleanup_tmpdirs over list: the children it forks are those of the TMPDIR
\* entries whose instance directory exists
CleanupEnvs(list, f) ==
    [sig_ok : BOOLEAN,
     child : [{i \in 1..Len(list) : list[i].method = TMPDIR
                                    /\ list[i].instance_prefix \in DOMAIN f}
              -> {"removed", "rmfail", "forkfail", "waitfail"}]]

(***************************************************************************)
(* umount(dir) on the mounts made so far.  A directory with no mount of    *)
(* this model on it may still carry one inherited from the parent          *)
(* namespace ("ok") or none at all ("EINVAL").                             *)
(***************************************************************************)
LastMount(m, dir) ==
    LET hits == {i \in 1..Len(m) : m[i].dst = dir}
    IN IF hits = {} THEN 0 ELSE CHOOSE i \in hits : \A j \in hits : i >= j

Umount(m, dir) ==
    LET k == LastMount(m, dir)
    IN IF k = 0 THEN m ELSE SubSeq(m, 1, k - 1) \o SubSeq(m, k + 1, Len(m))

UmountPossible(m, dir, res) == res = "EINVAL" => LastMount(m, dir) = 0

\* the name of a return code
CodeName(rv) ==
    IF rv = PAM_SUCCESS THEN "PAM_SUCCESS"
    ELSE IF rv = PAM_SESSION_ERR THEN "PAM_SESSION_ERR"
    ELSE IF rv = PAM_SYSTEM_ERR THEN "PAM_SYSTEM_ERR"
    ELSE IF rv = PAM_SERVICE_ERR THEN "PAM_SERVICE_ERR"
    ELSE "other"

(***************************************************************************)
(* The release of the list.  frees counts the runs of del_polydir_list on  *)
(* the list of this session.  cleanup_data is the function registered with *)
(* the data item; libpam's pam_set_data (pam_data.c, outside this file)    *)
(* runs the function registered with an item when the item is replaced.    *)
(***************************************************************************)
del_polydir_list(n) == n + 1
cleanup_data(n) == del_polydir_list(n)
\* old is the item before the call: "NULL" or "list"
pam_set_data_replace(old, n) == IF old = "NULL" THEN n ELSE cleanup_data(n)

(***************************************************************************)
(* pam_sm_open_session up to the call of setup_namespace (1378-1457).      *)
(***************************************************************************)
OpenStart ==
    /\ pc = "idle"
    /\ \E argv \in OpenArgvs :
         LET sel == sess.selinux # "off"
             a   == OpenArgs(argv, 1, InitFlags(sel, sess.selinux = "ctxt"), NO_UNMNT)
             pwd == getpwnam(sess.pw, sess.user_name)
             pr  == parse_config_file(sess.cfg, sess.user_name, a.flags, sess.pw)
             early(rv) ==
                 /\ pc' = "opened"
                 /\ result' = CodeName(rv)
                 /\ UNCHANGED <<idata, unmnt, polydirs, frees, retval>>
         IN /\ IF a.rv # 0 THEN early(a.rv)
               ELSE IF sess.user_name = NULL THEN early(PAM_SESSION_ERR)
               ELSE IF pwd = NULLP THEN early(PAM_SESSION_ERR)
               ELSE
                 /\ idata' = [flags |-> a.flags, user |-> sess.user_name,
                              uid |-> pwd.uid,
                              polydirs_ptr |-> IF pr.list = <<>> THEN "NULL" ELSE "list"]
                 /\ unmnt' = a.unmnt
                 /\ polydirs' = pr.list
                 /\ IF pr.rv # PAM_SUCCESS
                      THEN \* del_polydir_list; return PAM_SESSION_ERR
                           /\ frees' = IF pr.list = <<>> THEN 0 ELSE del_polydir_list(0)
                           /\ retval' = pr.rv
                           /\ result' = CodeName(PAM_SESSION_ERR)
                           /\ pc' = "opened"
                    ELSE IF pr.list = <<>>
                      THEN \* nothing to polyinstantiate
                           /\ frees' = 0
                           /\ retval' = pr.rv
                           /\ result' = CodeName(pr.rv)
                           /\ pc' = "opened"
                    ELSE /\ frees' = 0
                         /\ retval' = pr.rv
                         /\ result' = result
                         /\ pc' = "setup"
            /\ log' = <<>>
            /\ UNCHANGED <<sess, sigchld, req_uid, idx, slot, fs, mounts, cwd>>

(***************************************************************************)
(* setup_namespace up to the apply loop (1166-1229).  item_ok: whether     *)
(* pam_get_item returns PAM_SUCCESS; set_ok: whether pam_set_data does;    *)
(* unshare_ok: whether unshare succeeds.                                   *)
(* pam_set_data(..., NULL, NULL) on a set item runs the cleanup function   *)
(* registered with it, cleanup_data, on the old list.                      *)
(***************************************************************************)
\* SetupCalls with unshare called before the list is stored
SetupCalls_unshare_first(set_ok, unshare_ok) ==
    IF ~unshare_ok THEN <<Ev("unshare", <<>>, <<>>, "fail")>>
    ELSE IF ~set_ok THEN <<Ev("unshare", <<>>, <<>>, "ok"), Ev("set_data", <<>>, <<>>, "fail")>>
    ELSE <<Ev("unshare", <<>>, <<>>, "ok"), Ev("set_data", <<>>, <<>>, "ok")>>

\* 1213-1225: the calls made when polyinstantiation is needed: pam_set_data,
\* then unshare, then pam_set_data(NULL) when unshare failed
SetupCalls(set_ok, unshare_ok) ==
    IF ~set_ok THEN <<Ev("set_data", <<>>, <<>>, "fail")>>
    ELSE IF ~unshare_ok
      THEN <<Ev("set_data", <<>>, <<>>, "ok"), Ev("unshare", <<>>, <<>>, "fail"),
             Ev("set_data", <<>>, <<>>, "clear")>>
    ELSE <<Ev("set_data", <<>>, <<>>, "ok"), Ev("unshare", <<>>, <<>>, "ok")>>

SetupBegin ==
    /\ pc = "setup"
    /\ \E item_ok \in BOOLEAN, set_ok \in BOOLEAN, unshare_ok \in BOOLEAN :
         LET ru == ReqUid(sess.ruser, item_ok, sess.pw, sess.real_uid)
             need_poly == NeedPoly(polydirs, 1, idata.uid, ru, unmnt)
             evgi == <<Ev("get_item", <<>>, <<>>, IF item_ok THEN "ok" ELSE "fail")>>
         IN /\ req_uid' = ru
            /\ IF need_poly # 0
                 THEN IF ~set_ok
                        THEN /\ retval' = PAM_SYSTEM_ERR
                             /\ pc' = "ret"
                             /\ log' = log \o Tag(evgi \o SetupCalls(set_ok, unshare_ok), 0)
                             /\ UNCHANGED <<slot, frees, idx>>
                      ELSE IF ~unshare_ok
                        THEN /\ retval' = PAM_SESSION_ERR
                             /\ pc' = "ret"
                             /\ slot' = "NULL"
                             /\ frees' = pam_set_data_replace("list", frees)
                             /\ log' = log \o Tag(evgi \o SetupCalls(set_ok, unshare_ok), 0)
                             /\ UNCHANGED idx
                      ELSE /\ retval' = PAM_SUCCESS
                           /\ pc' = "apply"
                           /\ idx' = 1
                           /\ slot' = "list"
                           /\ log' = log \o Tag(evgi \o SetupCalls(set_ok, unshare_ok), 0)
                           /\ UNCHANGED frees
                 ELSE \* del_polydir_list(idata->polydirs_ptr); return PAM_SUCCESS
                      /\ retval' = PAM_SUCCESS
                      /\ pc' = "ret"
                      /\ frees' = del_polydir_list(frees)
                      /\ log' = log \o Tag(evgi, 0)
                      /\ UNCHANGED <<slot, idx>>
    /\ UNCHANGED <<sess, sigchld, idata, unmnt, polydirs, fs, mounts, cwd, result>>

\* UmountAborts taking every failure of umount as fatal
UmountAborts_any_error(res) == res # "ok"

\* setup_namespace, 1281-1288: umount failed and saved_errno != EINVAL
UmountAborts(res) == res \notin {"ok", "EINVAL"}

(***************************************************************************)
(* One iteration of the apply loop of setup_namespace (1235-1299) for an   *)
(* entry that is not skipped; du is its dir_unmnt.                         *)
(* Returns [retval, evs, fs, polyptr, mounts, cwd].                        *)
(***************************************************************************)
ApplyBody(pptr, i, du, user, flags, f, m, wd, ue, se) ==
    LET R(rv, evs, f2, pp, m2, wd2) ==
            [retval |-> rv, evs |-> evs, fs |-> f2, polyptr |-> pp,
             mounts |-> m2, cwd |-> wd2]
        unmounting == du \in {UNMNT_REMNT, UNMNT_ONLY}
        changing_dir == IF unmounting THEN cwd_in(pptr.dir, wd, ue.getcwd_ok) ELSE 0
        parent == poly_parent(pptr.dir)
        evgc == <<Ev("getcwd", wd, <<>>, IF ue.getcwd_ok THEN "ok" ELSE "fail")>>
        evcd == IF changing_dir > 0
                THEN evgc \o <<Ev("chdir", parent, <<>>, IF ue.chdir_ok THEN "ok" ELSE "fail")>>
                ELSE evgc
        wd1 == IF changing_dir > 0 /\ ue.chdir_ok THEN parent ELSE wd
        evum == IF unmounting THEN evcd \o <<Ev("umount", pptr.dir, <<>>, ue.umount)>>
                ELSE <<>>
        m1 == IF unmounting /\ ue.umount = "ok" THEN Umount(m, pptr.dir) ELSE m
    IN IF changing_dir < 0
         THEN R(PAM_SESSION_ERR, evgc, f, pptr, m, wd)
       ELSE IF unmounting /\ UmountAborts(ue.umount)
         THEN R(PAM_SESSION_ERR, evum, f, pptr, m, wd1)
       ELSE IF du # UNMNT_ONLY
         THEN LET Setup(ns) ==
                      R(ns.retval, evum \o ns.evs, ns.fs, ns.polyptr,
                        m1 \o [k \in 1..Len(ns.mnt) |->
                                 [dst |-> ns.mnt[k].dst, src |-> ns.mnt[k].src, rule |-> i]],
                        wd1)
              IN Setup(ns_setup(pptr, user, flags, f, se))
       ELSE R(PAM_SUCCESS, evum, f, pptr, m1, wd1)

\* AfterRule without the break
AfterRule_no_break(rv, i, n) ==
    [pc |-> IF i + 1 > n THEN "out" ELSE "apply", idx |-> i + 1]

\* where the loop goes after an iteration that left retval = rv:
\* the break at 1296-1297, the goto out, or pptr = pptr->next
AfterRule(rv, i, n) ==
    IF rv # PAM_SUCCESS THEN [pc |-> "out", idx |-> i]
    ELSE [pc |-> IF i + 1 > n THEN "out" ELSE "apply", idx |-> i + 1]

ApplyRule ==
    /\ pc = "apply"
    /\ idx <= Len(polydirs)
    /\ LET pptr == polydirs[idx]
           du   == DirUnmnt(pptr, idata.uid, req_uid, unmnt)
       IN IF du = "skip"
          THEN /\ pc' = AfterRule(retval, idx, Len(polydirs)).pc
               /\ idx' = AfterRule(retval, idx, Len(polydirs)).idx
               /\ UNCHANGED <<retval, polydirs, fs, mounts, cwd, log, sigchld>>
          ELSE \E ue \in (IF du \in {UNMNT_REMNT, UNMNT_ONLY}
                          THEN UmountEnvs ELSE {UmountEnvBase}),
                  se \in (IF du # UNMNT_ONLY THEN SetupEnvs ELSE {SetupEnvBase}) :
                 /\ UmountPossible(mounts, pptr.dir, ue.umount)
                 /\ \E b \in {ApplyBody(pptr, idx, du, idata.user, idata.flags,
                                         fs, mounts, cwd, ue, se)} :
                       /\ retval' = b.retval
                       /\ polydirs' = [polydirs EXCEPT ![idx] = b.polyptr]
                       /\ fs' = b.fs
                       /\ mounts' = b.mounts
                       /\ cwd' = b.cwd
                       /\ log' = log \o Tag(b.evs, idx)
                       /\ sigchld' = IF \E k \in DOMAIN b.evs : b.evs[k].op = "inst_init"
                                     THEN SigchldAfter(sigchld, se.script # "sigerr")
                                     ELSE sigchld
                       /\ pc' = AfterRule(b.retval, idx, Len(polydirs)).pc
                       /\ idx' = AfterRule(b.retval, idx, Len(polydirs)).idx
    /\ UNCHANGED <<sess, idata, unmnt, req_uid, frees, slot, result>>

(***************************************************************************)
(* The out: label of setup_namespace (1300-1303).                          *)
(***************************************************************************)
SetupOut ==
    /\ pc = "out"
    /\ IF retval # PAM_SUCCESS
         THEN \E ce \in CleanupEnvs(polydirs, fs) :
                LET c == cleanup_tmpdirs(polydirs, fs, ce)
                IN /\ fs' = c.fs
                   /\ log' = log \o c.evs
                   /\ sigchld' = SigchldAfter(sigchld, ce.sig_ok)
         ELSE UNCHANGED <<fs, log, sigchld>>
    /\ pc' = "ret"
    /\ UNCHANGED <<sess, idata, unmnt, req_uid, idx, retval, polydirs, frees,
                   slot, mounts, cwd, result>>

(***************************************************************************)
(* The end of pam_sm_open_session (1469-1471).  del_polydir_list on a list *)
(* that was already released is a double free: the call may go on or the   *)
(* process may be aborted by the allocator.                                *)
(***************************************************************************)
OpenReturn ==
    /\ pc = "ret"
    /\ IF retval # PAM_SUCCESS
         THEN /\ frees' = del_polydir_list(frees)
              /\ \/ /\ result' = CodeName(retval)
                    /\ pc' = "opened"
                 \/ /\ frees >= 1
                    /\ result' = "crash"
                    /\ pc' = "crashed"
         ELSE /\ UNCHANGED frees
              /\ result' = CodeName(retval)
              /\ pc' = "opened"
    /\ UNCHANGED <<sess, sigchld, idata, unmnt, req_uid, idx, retval, polydirs, slot,
                   fs, mounts, cwd, log>>

(***************************************************************************)
(* pam_sm_close_session up to the call of orig_namespace (1478-1560).      *)
(* When the item still points to a list that was released, the entries     *)
(* read are freed memory: the call may read what was there or the process  *)
(* may die.                                                                *)
(***************************************************************************)
\* NothingToReset entering orig_namespace whatever the item holds
NothingToReset_never(polyptr) == FALSE

\* 1549-1552: pam_get_data finds no item or a NULL one
NothingToReset(polyptr) == polyptr = "NULL"

CloseStart ==
    /\ pc = "opened"
    /\ \E argv \in CloseArgvs :
         LET sel == sess.selinux # "off"
             fl  == CloseArgs(argv, 1, InitFlags(sel, sess.selinux = "ctxt"))
             pwd == getpwnam(sess.pw, sess.user_name)
             return(rv) ==
                 /\ pc' = "closed"
                 /\ result' = CodeName(rv)
                 /\ UNCHANGED <<idata, idx, retval>>
         IN IF fl.no_unmount_on_close THEN return(PAM_SUCCESS)
            ELSE IF sess.user_name = NULL \/ pwd = NULLP THEN return(PAM_SESSION_ERR)
            ELSE IF NothingToReset(slot) THEN return(PAM_SUCCESS)
            ELSE \/ /\ idata' = [flags |-> fl, user |-> sess.user_name,
                                 uid |-> pwd.uid, polydirs_ptr |-> slot]
                    /\ idx' = 1
                    /\ retval' = PAM_SUCCESS
                    /\ pc' = "close_loop"
                    /\ result' = result
                 \/ /\ frees >= 1
                    /\ pc' = "crashed"
                    /\ result' = "crash"
                    /\ UNCHANGED <<idata, idx, retval>>
    /\ log' = <<>>
    /\ UNCHANGED <<sess, sigchld, unmnt, req_uid, polydirs, frees, slot, fs, mounts, cwd>>

(***************************************************************************)
(* One iteration of the loop of orig_namespace (1325-1342).  retval holds  *)
(* what orig_namespace returns.                                            *)
(***************************************************************************)
\* UmountFailed tolerating EINVAL as the apply loop does
UmountFailed_einval_ok(res) == res \notin {"ok", "EINVAL"}

\* orig_namespace, 1334: umount(pptr->dir) < 0
UmountFailed(res) == res # "ok"

CloseRule ==
    /\ pc = "close_loop"
    /\ idx <= Len(polydirs)
    /\ LET pptr == polydirs[idx]
           advance ==
               /\ idx' = idx + 1
               /\ pc' = IF idx + 1 > Len(polydirs) THEN "close_cleanup" ELSE "close_loop"
       IN IF ns_override(pptr, idata.uid)
          THEN advance /\ UNCHANGED <<retval, mounts, log>>
          ELSE \E res \in {"ok", "EINVAL", "EBUSY"} :
                 /\ UmountPossible(mounts, pptr.dir, res)
                 /\ log' = log \o Tag(<<Ev("umount", pptr.dir, <<>>, res)>>, idx)
                 /\ IF ~UmountFailed(res)
                      THEN /\ mounts' = IF res = "ok" THEN Umount(mounts, pptr.dir)
                                        ELSE mounts
                           /\ advance
                           /\ UNCHANGED retval
                    ELSE /\ retval' = PAM_SESSION_ERR
                         /\ pc' = "close_end"
                         /\ UNCHANGED <<mounts, idx>>
    /\ UNCHANGED <<sess, sigchld, idata, unmnt, req_uid, polydirs, frees, slot, fs, cwd, result>>

\* the end of orig_namespace when its loop ran to the end (1344-1345)
CloseCleanup ==
    /\ pc = "close_cleanup"
    /\ \E ce \in CleanupEnvs(polydirs, fs) :
         LET c == cleanup_tmpdirs(polydirs, fs, ce)
         IN /\ fs' = c.fs
            /\ log' = log \o c.evs
            /\ sigchld' = SigchldAfter(sigchld, ce.sig_ok)
    /\ retval' = 0
    /\ pc' = "close_end"
    /\ UNCHANGED <<sess, idata, unmnt, req_uid, idx, polydirs, frees, slot,
                   mounts, cwd, result>>

(***************************************************************************)
(* The end of pam_sm_close_session (1570-1572): the item is cleared, which *)
(* runs cleanup_data on the list, and PAM_SUCCESS is returned.             *)
(***************************************************************************)
CloseEnd ==
    /\ pc = "close_end"
    /\ slot' = "NULL"
    /\ frees' = pam_set_data_replace(slot, frees)
    /\ \/ /\ result' = CodeName(PAM_SUCCESS)
          /\ pc' = "closed"
       \/ /\ frees >= 1
          /\ result' = "crash"
          /\ pc' = "crashed"
    /\ UNCHANGED <<sess, sigchld, idata, unmnt, req_uid, idx, retval, polydirs, fs,
                   mounts, cwd, log>>

Next ==
    \/ OpenStart
    \/ SetupBegin
    \/ ApplyRule
    \/ SetupOut
    \/ OpenReturn
    \/ CloseStart
    \/ CloseRule
    \/ CloseCleanup
    \/ CloseEnd

Spec == Init /\ [][Next]_vars

TypeOK ==
    /\ pc \in {"idle", "setup", "apply", "out", "ret", "opened", "close_loop",
               "close_cleanup", "close_end", "closed", "crashed"}
    /\ slot \in {"NULL", "list"}
    /\ frees \in 0..3
    /\ retval \in {PAM_SUCCESS, PAM_SESSION_ERR, PAM_SYSTEM_ERR, PAM_SERVICE_ERR}
    /\ sigchld \in [handler : {"SIG_DFL", "SIG_IGN", "handler"},
                    flags : SUBSET {"SA_RESTART", "SA_NOCLDSTOP", "SA_SIGINFO"}]

(***************************************************************************)
(* Properties.                                                             *)
(***************************************************************************)
\* the open call is running or has just returned: log holds its events
InOpen == pc \in {"setup", "apply", "out", "ret", "opened"}

IsBindMount(ev) == ev.op = "mount" /\ ev.src # sTmpfs

\* C1: during open-session a bind mount of a rule is attempted only after
\* create_dirs (parent check, create, label, chown/chmod, init hook) has
\* succeeded for that rule; when create_dirs fails no bind mount is made.
C1_MountOnlyAfterMaterialized ==
    InOpen =>
      \A k \in DOMAIN log :
         IsBindMount(log[k]) =>
            \E j \in 1..(k-1) :
               /\ log[j].op = "create_dirs"
               /\ log[j].rule = log[k].rule
               /\ log[j].res = "ok"

\* C2: when the init script exists and is executable, inst_init returns
\* PAM_SUCCESS only when the child exits with status 0; a non-zero exit, a
\* death by signal, a failing fork or a failing exec make it return an error.
C2_HookSuccessOnlyOnExit0 ==
    \A k \in DOMAIN log :
       (log[k].op = "fork" /\ k < Len(log) /\ log[k+1].op = "inst_init") =>
          (log[k+1].res = "ok" <=> log[k].res = "exit0")

(***************************************************************************)
(* Sessions of further configurations, under the same actions.             *)
(***************************************************************************)
pPolyInst == <<"/","v","a","r","/","p","o","l","y","/","i","n","s","t">>
\* "/tmp /var/poly/inst user ~1000"
Line1000 == <<pTmp, pPolyInst, kwUser, <<"~">> \o n1000>>
\* the passwd database with one more user, named "1000", of uid u
Pw1000(u) == PwBase \cup {[name |-> n1000, uid |-> u, dir |-> pRoot]}

InitNamed ==
    InitWith({nAnn, nBob}, {NULL, nAnn}, {0}, {PwBase, Pw1000(1000), Pw1000(2000)},
             {[fopen_ok |-> TRUE, lines |-> <<Line1000>>]}, {pTmp}, {"off", "on"})
SpecNamed == InitNamed /\ [][Next]_vars

\* "/tmp /i/t- user bob"
LineTmpUserBob == <<pTmp, <<"/","i","/","t","-">>, kwUser, nBob>>
\* three entries, none of them overridden for ann, all of them for bob
InitThree ==
    InitWith({nAnn, nBob}, {NULL, nAnn}, {0}, {PwBase},
             {[fopen_ok |-> TRUE,
               lines |-> <<LineTmpUserBob, LineVarTmpdir, LineHomeTmpfs>>]},
             {pTmp}, {"off"})
SpecThree == InitThree /\ [][Next]_vars

\* every PAM_RUSER and two real uids, over one-line configurations
InitReq ==
    InitWith({nAnn}, {NULL, nAnn, nBob, nGhost}, {0, 2000}, {PwBase},
             {[fopen_ok |-> TRUE, lines |-> l] : l \in {<<LineTmpUser>>, <<LineVarTmpdir>>}},
             {pTmp}, {"off"})
SpecReq == InitReq /\ [][Next]_vars

(***************************************************************************)
(* C3.                                                                     *)
(***************************************************************************)
\* the uids of the users named "1000"
NamedUids == {e.uid : e \in {x \in sess.pw : x.name = n1000}}
HasMountEvent == \E k \in DOMAIN log : log[k].op = "mount"
\* the instance path of a "user" entry: the prefix, then the name or its hash
UserInstPath(i) ==
    polydirs[i].instance_prefix
      \o (IF idata.flags.gen_hash THEN md5hash(idata.user) ELSE idata.user)
Returned(code) == pc = "opened" /\ result = code

\* C3 (as stated): for the line "/tmp /var/poly/inst user ~1000" the entry is
\* overridden for uid 1000, so a session of uid 1000 mounts nothing, and a
\* session of uid 2000 that succeeds has the instance path bind-mounted on /tmp.
C3_AsStated ==
    (InOpen /\ polydirs # <<>>) =>
       /\ ns_override(polydirs[1], 1000)
       /\ idata.uid = 1000 => (mounts = <<>> /\ ~HasMountEvent)
       /\ (Returned("PAM_SUCCESS") /\ idata.uid = 2000 /\ unmnt # UNMNT_ONLY) =>
             mounts = <<[dst |-> pTmp, src |-> UserInstPath(1), rule |-> 1]>>

\* C3 (amended): for the line "/tmp /var/poly/inst user ~1000" the entry is
\* exclusive and "1000" is looked up as a user name: the entry is overridden
\* for every uid but the uid of the user named "1000" (for every uid when no
\* such user exists).  A session of any other uid mounts nothing; a session of
\* that uid that succeeds, unless under unmnt_only, has the instance path
\* bind-mounted on /tmp.
C3_TildeExcludesNamedUser ==
    (InOpen /\ polydirs # <<>>) =>
       /\ polydirs[1].exclusive
       /\ \A u \in {1000, 2000} : ns_override(polydirs[1], u) <=> u \notin NamedUids
       /\ idata.uid \notin NamedUids => (mounts = <<>> /\ ~HasMountEvent)
       /\ (Returned("PAM_SUCCESS") /\ idata.uid \in NamedUids /\ unmnt # UNMNT_ONLY) =>
             mounts = <<[dst |-> pTmp, src |-> UserInstPath(1), rule |-> 1]>>

\* a session of uid 1000 that got the mount, the user "1000" having uid 1000
C3_Witness ==
    /\ Returned("PAM_SUCCESS")
    /\ idata.uid = 1000
    /\ NamedUids = {1000}
    /\ mounts = <<[dst |-> pTmp, src |-> pPolyInst \o nAnn, rule |-> 1]>>

(***************************************************************************)
(* C4.                                                                     *)
(***************************************************************************)
\* log[k] records that the processing of its entry failed: ns_setup returned
\* non-zero, the unmount failed with an errno other than EINVAL, or getcwd
\* failed
FailedAt(k) ==
    \/ log[k].op = "ns_setup" /\ log[k].res = "fail"
    \/ log[k].op = "umount" /\ log[k].res \notin {"ok", "EINVAL"}
    \/ log[k].op = "getcwd" /\ log[k].res = "fail"

\* the mount made at log[k] was not taken off by a later umount of its target
NotUnmountedAfter(k) ==
    ~\E j \in (k+1)..Len(log) :
        log[j].op = "umount" /\ log[j].path = log[k].path /\ log[j].res = "ok"

\* C4: when an entry fails in the apply loop of open-session, nothing but
\* the removal of TMPDIR directories follows: no unmount (so no rollback of
\* the mounts of earlier entries) and no unmount, directory creation, init
\* script or mount for a later entry; the mounts made by earlier entries are
\* still in place.
C4_FailureKeepsEarlierSkipsLater ==
    InOpen =>
      /\ \A k \in DOMAIN log :
            FailedAt(k) => \A j \in (k+1)..Len(log) :
                              log[j].op = "rm" /\ log[j].rule <= log[k].rule
      /\ \A k \in DOMAIN log :
            (log[k].op = "mount" /\ log[k].res = "ok" /\ NotUnmountedAfter(k)) =>
               \E m \in DOMAIN mounts :
                  mounts[m].dst = log[k].path /\ mounts[m].rule = log[k].rule

\* the second of three entries failed after the first was mounted
C4_Witness ==
    /\ pc = "opened"
    /\ Len(polydirs) = 3
    /\ \E k \in DOMAIN log : FailedAt(k) /\ log[k].rule = 2
    /\ \E m \in DOMAIN mounts : mounts[m].rule = 1 /\ mounts[m].dst = polydirs[1].dir
    /\ ~ns_override(polydirs[3], idata.uid)

(***************************************************************************)
(* C5.                                                                     *)
(***************************************************************************)
OverrideSet(polyptr) == {polyptr.uid[i] : i \in 1..polyptr.num_uids}
SomeUids == {0, 1000, 2000}

\* C5: for every entry and every uid, ns_override is true iff the uid is
\* among the entry's override uids when exclusive is false, and iff it is not
\* among them when exclusive is true.
C5_OverrideIff ==
    \A i \in DOMAIN polydirs : \A u \in SomeUids :
       ns_override(polydirs[i], u) <=>
          (IF polydirs[i].exclusive THEN u \notin OverrideSet(polydirs[i])
           ELSE u \in OverrideSet(polydirs[i]))

\* the scan of setup_namespace has run over an exclusive and a plain entry,
\* each with an override uid
C5_Witness ==
    /\ pc = "apply"
    /\ \E i, j \in DOMAIN polydirs :
          /\ polydirs[i].exclusive /\ polydirs[i].num_uids > 0
          /\ ~polydirs[j].exclusive /\ polydirs[j].num_uids > 0

(***************************************************************************)
(* C6.                                                                     *)
(***************************************************************************)
Overridden(i, u) == ns_override(polydirs[i], u)
Skip(i) == Overridden(i, idata.uid) /\ (unmnt = NO_UNMNT \/ Overridden(i, req_uid))
UnmountOnly(i) ==
    \/ Overridden(i, idata.uid) /\ unmnt # NO_UNMNT /\ ~Overridden(i, req_uid)
    \/ ~Overridden(i, idata.uid) /\ unmnt = UNMNT_ONLY
Remount(i) == ~Overridden(i, idata.uid) /\ unmnt = UNMNT_REMNT
MountOnly(i) == ~Overridden(i, idata.uid) /\ unmnt = NO_UNMNT

\* the apply loop is done with entry i / went past it without a failure
Processed(i) == i < idx \/ (i = idx /\ pc # "apply" /\ retval # PAM_SUCCESS)
Passed(i) == i < idx
\* what the apply loop did for entry i (the removals of cleanup_tmpdirs apart)
Did(i, ops) == \E k \in DOMAIN log : log[k].rule = i /\ log[k].op \in ops
DidAnything(i) == \E k \in DOMAIN log : log[k].rule = i /\ log[k].op # "rm"
UnmountOps == {"getcwd", "chdir", "umount"}
SetupOps == {"ns_setup", "create_dirs", "inst_init", "mount", "mkdir", "mkdtemp",
             "access", "fork", "fsetfilecon", "fchown", "fchmod", "rmdir"}
UnmountTolerated(i) ==
    \E k \in DOMAIN log :
       log[k].rule = i /\ log[k].op = "umount" /\ log[k].res \in {"ok", "EINVAL"}

\* C6: the apply loop skips an entry iff it is overridden for the session uid
\* and (unmnt is NO_UNMNT or it is overridden for the requesting uid); it only
\* unmounts when overridden for the session uid, unmnt not NO_UNMNT and not
\* overridden for the requesting uid, or not overridden for the session uid
\* under UNMNT_ONLY; it unmounts then sets up when not overridden for the
\* session uid under UNMNT_REMNT; it only sets up when not overridden for the
\* session uid under NO_UNMNT.  A skipped entry gets no unmount and no mount,
\* an unmount-only entry no mount.
C6_Disposition ==
    (pc \in {"apply", "out", "ret", "opened"}) =>
      \A i \in DOMAIN polydirs :
         Processed(i) =>
            /\ Skip(i) <=> ~DidAnything(i)
            /\ UnmountOnly(i) => (Did(i, {"getcwd"}) /\ ~Did(i, SetupOps))
            /\ Remount(i) => /\ Did(i, {"getcwd"})
                             /\ Did(i, {"ns_setup"}) <=> UnmountTolerated(i)
            /\ MountOnly(i) => (~Did(i, UnmountOps) /\ Did(i, {"ns_setup"}))
            /\ Passed(i) =>
                 /\ UnmountOnly(i) <=> (Did(i, {"umount"}) /\ ~Did(i, {"mount"}))
                 /\ Remount(i) <=> (Did(i, {"umount"}) /\ Did(i, {"mount"}))
                 /\ MountOnly(i) <=> (~Did(i, {"umount"}) /\ Did(i, {"mount"}))

\* a successful open that only unmounted one entry and remounted another
C6_Witness ==
    /\ Returned("PAM_SUCCESS")
    /\ \E i, j \in DOMAIN polydirs :
          /\ UnmountOnly(i) /\ Overridden(i, idata.uid) /\ Did(i, {"umount"})
          /\ Remount(j) /\ Did(j, {"umount"}) /\ Did(j, {"mount"})

(***************************************************************************)
(* C7.                                                                     *)
(***************************************************************************)
\* setup_namespace has computed req_uid in this call
ReqUidSet == pc \in {"apply", "out", "ret"}
GotItem == log # <<>> /\ log[1].op = "get_item" /\ log[1].res = "ok"
HintResolves == sess.ruser # NULL /\ getpwnam(sess.pw, sess.ruser) # NULLP

\* C7 (as stated): the requesting uid is the uid PAM_RUSER resolves to when
\* it is set and resolves, and the session uid otherwise.
C7_AsStated ==
    (ReqUidSet /\ GotItem) =>
       req_uid = (IF HintResolves THEN getpwnam(sess.pw, sess.ruser).uid
                  ELSE idata.uid)

\* C7 (amended): the requesting uid is the uid PAM_RUSER resolves to when the
\* item is obtained, set and resolves; otherwise it is getuid(), the real uid
\* of the calling process, whatever the session uid is.
C7_FallsBackToGetuid ==
    ReqUidSet =>
       /\ log # <<>> /\ log[1].op = "get_item"
       /\ req_uid = (IF GotItem /\ HintResolves THEN getpwnam(sess.pw, sess.ruser).uid
                     ELSE sess.real_uid)

\* PAM_RUSER names no user: the real uid is used, which is not the session uid
C7_Witness ==
    /\ pc = "apply"
    /\ GotItem
    /\ sess.ruser = nGhost
    /\ req_uid = sess.real_uid
    /\ req_uid # idata.uid

(***************************************************************************)
(* C8.                                                                     *)
(***************************************************************************)
ParseOk ==
    parse_config_file(sess.cfg, sess.user_name, idata.flags, sess.pw).rv = PAM_SUCCESS
NothingNeeded ==
    \A i \in DOMAIN polydirs :
       Overridden(i, idata.uid) /\ (unmnt = NO_UNMNT \/ Overridden(i, req_uid))

\* C8: when the configuration is loaded and every entry is overridden for the
\* session uid and (unmnt is NO_UNMNT or the entry is overridden for the
\* requesting uid too), open-session returns PAM_SUCCESS without unshare,
\* mount, unmount or directory creation, leaves the data item unset, and has
\* released the list (once).
C8_NeedsNothing ==
    (pc = "opened" /\ polydirs # <<>> /\ ParseOk /\ NothingNeeded) =>
       /\ result = "PAM_SUCCESS"
       /\ \A k \in DOMAIN log : log[k].op = "get_item"
       /\ slot = "NULL"
       /\ mounts = <<>>
       /\ fs = InitFs
       /\ frees = 1

\* under an unmount mode, every entry overridden for both uids
C8_Witness ==
    /\ pc = "opened" /\ polydirs # <<>> /\ ParseOk /\ NothingNeeded
    /\ unmnt # NO_UNMNT
    /\ Len(polydirs) = MaxLines
    /\ result = "PAM_SUCCESS"

(***************************************************************************)
(* C9.                                                                     *)
(***************************************************************************)
UnshareFailed == \E k \in DOMAIN log : log[k].op = "unshare" /\ log[k].res = "fail"

\* C9: when unshare fails in open-session, the data item is cleared, there
\* is no mount, unmount or directory creation, and open-session returns
\* PAM_SESSION_ERR.
C9_UnshareFailureReturnsSessionErr ==
    (pc \in {"opened", "crashed"} /\ UnshareFailed) =>
       /\ slot = "NULL"
       /\ \A k \in DOMAIN log : log[k].op \notin {"mount", "umount", "mkdir", "mkdtemp"}
       /\ result = "PAM_SESSION_ERR"

(***************************************************************************)
(* C10.                                                                    *)
(***************************************************************************)
InClose == pc \in {"close_loop", "close_cleanup", "close_end", "closed"}
UmountFailedAt(k) == log[k].op = "umount" /\ log[k].res # "ok"
NothingMountedOrUnmountedAfter(k) ==
    \A j \in (k+1)..Len(log) : log[j].op \notin {"umount", "mount"}

C11_CleanupAfterUnmountPass ==
    /\ [][pc' = "close_end" => pc = "close_cleanup"]_vars
    /\ [][pc = "close_end" => slot' = "NULL"]_vars

(***************************************************************************)
(* C12.                                                                    *)
(***************************************************************************)
LogHas(i, op, ress) ==
    \E k \in DOMAIN log : log[k].rule = i /\ log[k].op = op /\ log[k].res \in ress
Mounted(dir) == \E m \in DOMAIN mounts : mounts[m].dst = dir

\* C12: open-session returns PAM_SUCCESS only if the configuration was
\* loaded and, when some entry needed the private namespace, unshare
\* succeeded, every entry whose disposition includes the unmount had its
\* unmount succeed or fail with EINVAL (and no unmount fail otherwise), and
\* every entry whose disposition includes the mount had its mount made and
\* its target is mounted at the end.
C12_SuccessOnlyIfAllSteps ==
    Returned("PAM_SUCCESS") =>
       /\ ParseOk
       /\ ~NothingNeeded => LogHas(0, "unshare", {"ok"})
       /\ \A i \in DOMAIN polydirs :
             /\ (UnmountOnly(i) \/ Remount(i)) =>
                   /\ LogHas(i, "umount", {"ok", "EINVAL"})
                   /\ ~LogHas(i, "umount", {"EBUSY"})
             /\ (Remount(i) \/ MountOnly(i)) =>
                   /\ LogHas(i, "mount", {"ok"})
                   /\ ~LogHas(i, "mount", {"fail"})
                   /\ Mounted(polydirs[i].dir)
       /\ \A k \in DOMAIN log : FailedAt(k) => FALSE

\* a successful open over two entries: one only unmounted, with EINVAL, the
\* other unmounted and mounted again
C12_Witness ==
    /\ Returned("PAM_SUCCESS")
    /\ \E i, j \in DOMAIN polydirs :
          /\ UnmountOnly(i) /\ LogHas(i, "umount", {"EINVAL"})
          /\ Remount(j) /\ LogHas(j, "umount", {"ok", "EINVAL"})
          /\ LogHas(j, "mount", {"ok"}) /\ Mounted(polydirs[j].dir)

(***************************************************************************)
(* C13.                                                                    *)
(***************************************************************************)
\* sessions whose PAM_USER item is unset or names no user, besides ann
InitUnknown ==
    InitWith({nAnn, nGhost, NULL}, {NULL, nBob}, {0}, {PwBase},
             {[fopen_ok |-> TRUE, lines |-> l] : l \in {<<LineTmpUser>>, <<LineVarTmpdir>>}},
             {pTmp}, {"off"})
SpecUnknown == InitUnknown /\ [][Next]_vars

UserResolves == sess.user_name # NULL /\ getpwnam(sess.pw, sess.user_name) # NULLP
\* close-session runs to its return in this step, the data item holding no list
CloseWithoutList == pc = "opened" /\ slot = "NULL" /\ pc' # "opened"
NothingTouched == pc' = "closed" /\ log' = <<>> /\ mounts' = mounts /\ fs' = fs

AcceptedEntries ==
    LET ents == [k \in 1..Len(sess.cfg.lines) |->
                   process_line(sess.cfg.lines[k],
                                getpwnam(sess.pw, idata.user).dir,
                                idata.user, idata.flags, sess.pw).ent]
    IN SelectSeq(ents, LAMBDA x : x # NULLP)
DirsOf(list) == [i \in 1..Len(list) |-> list[i].dir]

\* C14: the list holds the entries of the accepted lines in the order of the
\* file, and open-session works through it in that order: every unmount,
\* directory creation, init script and mount of entry i comes before any of
\* entry j when i < j.
C14_FileOrder ==
    /\ pc = "setup" => polydirs = AcceptedEntries
    /\ pc \in {"apply", "out", "ret"} => DirsOf(polydirs) = DirsOf(AcceptedEntries)
    /\ InOpen =>
          \A j, k \in DOMAIN log :
             (j < k /\ log[j].op # "rm" /\ log[k].op # "rm") =>
                log[j].rule <= log[k].rule

\* two entries of different directories, the second line of the file set up
\* after the first
C14_Witness ==
    /\ pc = "opened"
    /\ Len(polydirs) = 2
    /\ polydirs[1].dir # polydirs[2].dir
    /\ DirsOf(polydirs) = DirsOf(AcceptedEntries)
    /\ LogHas(1, "mount", {"ok"})
    /\ LogHas(2, "mount", {"ok"})
(***************************************************************************)
(* C15.                                                                    *)
(***************************************************************************)
\* "/tmp" : one token;  "" : a blank line or a comment, no token
LineOne == <<pTmp>>
LineBlank == <<>>

InitShort ==
    InitWith({nAnn}, {NULL}, {0}, {PwBase},
             {[fopen_ok |-> TRUE, lines |-> l] :
                 l \in SeqsUpTo({LineVarTmpdir, LineShort, LineOne, LineBlank}, MaxLines)},
             {pTmp}, {"off"})
SpecShort == InitShort /\ [][Next]_vars

\* the open call has read its arguments and the user
PastArgs == InOpen /\ idata.user # <<>>
\* some line of the file has between lo and hi tokens
HasTokens(lo, hi) ==
    \E k \in DOMAIN sess.cfg.lines : Len(sess.cfg.lines[k]) \in lo..hi
\* the directories of the lines with three tokens or more, in order
OtherDirs ==
    LET others == SelectSeq(sess.cfg.lines, LAMBDA l : Len(l) >= 3)
    IN [i \in 1..Len(others) |-> others[i][1]]
LoadFailedCleanly ==
    /\ pc = "opened" /\ result = "PAM_SESSION_ERR"
    /\ log = <<>> /\ slot = "NULL" /\ mounts = <<>>
LoadedOthers == ParseOk /\ DirsOf(polydirs) = OtherDirs

\* C15 (as stated): when the file has a line of fewer than three tokens,
\* with ignore_config_error the load succeeds and the list holds exactly the
\* other lines; without it the load fails, open-session returns
\* PAM_SESSION_ERR, and there is no unshare, no mount and no data item.
C15_AsStated ==
    (PastArgs /\ HasTokens(0, 2)) =>
       IF idata.flags.ign_config_err THEN LoadedOthers ELSE LoadFailedCleanly

\* C15 (amended): a line of one or two tokens is rejected: with
\* ignore_config_error the load succeeds and the list holds exactly the other
\* lines; without it the load fails, open-session returns PAM_SESSION_ERR,
\* and there is no unshare, no mount and no data item.  A line without any
\* token (blank, or only a comment) is passed over and fails nothing.
C15_ShortLineRejected ==
    PastArgs =>
       IF HasTokens(1, 2) /\ ~idata.flags.ign_config_err
       THEN LoadFailedCleanly
       ELSE LoadedOthers

\* under ignore_config_error, a file of a two-token line and a full line:
\* the full line alone is in the list, and was mounted
C15_Witness ==
    /\ Returned("PAM_SUCCESS")
    /\ sess.cfg.lines = <<LineShort, LineVarTmpdir>>
    /\ idata.flags.ign_config_err
    /\ DirsOf(polydirs) = <<pVar>>
    /\ LogHas(1, "mount", {"ok"})
(***************************************************************************)
(* C16.                                                                    *)
(***************************************************************************)
\* "tmp /i/t- user", "/tmp/../v /i/t- user", "/tmp i/t- user", "/t..p /i/t- user"
LineRelDir     == <<<<"t","m","p">>, <<"/","i","/","t","-">>, kwUser>>
LineDotDot     == <<pTmp \o <<"/",".",".","/","v">>, <<"/","i","/","t","-">>, kwUser>>
LineRelPrefix  == <<pTmp, <<"i","/","t","-">>, kwUser>>
LineDotsInName == <<<<"/","t",".",".","p">>, <<"/","i","/","t","-">>, kwUser>>

InitPaths ==
    InitWith({nAnn}, {NULL}, {0}, {PwBase},
             {[fopen_ok |-> TRUE, lines |-> l] :
                 l \in SeqsUpTo({LineRelDir, LineDotDot, LineRelPrefix, LineDotsInName,
                                 LineHomeTmpfs, LineVarTmpdir}, MaxLines)},
             {pTmp}, {"off"})
SpecPaths == InitPaths /\ [][Next]_vars

\* some segment of the path p (what stands between two '/') is ".."
HasDotDotSegment(p) ==
    \E i \in 1..(Len(p) - 1) :
       /\ p[i] = "." /\ p[i+1] = "."
       /\ (i = 1 \/ p[i-1] = "/")
       /\ (i + 2 > Len(p) \/ p[i+2] = "/")
Absolute(p) == Len(p) > 0 /\ p[1] = "/"
\* the line (of three tokens or more, no $ in its prefix) names a target
\* that is not absolute or has a ".." segment, or a prefix that is not
\* absolute under a method other than tmpfs
Violates(line, home) ==
    LET dir == IF line[1] = sHOME THEN home ELSE line[1]
    IN \/ ~Absolute(dir)
       \/ HasDotDotSegment(dir)
       \/ line[3] # kwTmpfs /\ ~Absolute(line[2])
HomeOfUser == getpwnam(sess.pw, idata.user).dir
CleanLines == SelectSeq(sess.cfg.lines, LAMBDA l : ~Violates(l, HomeOfUser))

\* C16: every entry of the list has a dir that starts with '/' and has no
\* ".." segment, and an instance_prefix that starts with '/' unless its
\* method is tmpfs; a line that breaks this is rejected by process_line and
\* is not in the list.
C16_PathsChecked ==
    (pc # "idle" /\ idata.user # <<>>) =>
       /\ \A i \in DOMAIN polydirs :
             /\ Absolute(polydirs[i].dir)
             /\ ~HasDotDotSegment(polydirs[i].dir)
             /\ polydirs[i].method # TMPFS => Absolute(polydirs[i].instance_prefix)
       /\ \A k \in DOMAIN sess.cfg.lines :
             Violates(sess.cfg.lines[k], HomeOfUser) =>
                /\ process_line(sess.cfg.lines[k], HomeOfUser, idata.user,
                                idata.flags, sess.pw).ent = NULLP
                /\ process_line(sess.cfg.lines[k], HomeOfUser, idata.user,
                                idata.flags, sess.pw).rv =
                      (IF idata.flags.ign_config_err THEN 0 ELSE PAM_SERVICE_ERR)
       /\ Len(polydirs) <= Len(CleanLines)

\* under ignore_config_error, a file of a line with a ".." segment and a
\* tmpfs line with a relative prefix: the tmpfs line alone is in the list
C16_Witness ==
    /\ pc = "apply"
    /\ sess.cfg.lines = <<LineDotDot, LineHomeTmpfs>>
    /\ Len(polydirs) = 1
    /\ polydirs[1].method = TMPFS
    /\ ~Absolute(polydirs[1].instance_prefix)
    /\ polydirs[1].dir = pHomeAnn
(***************************************************************************)
(* C17.                                                                    *)
(***************************************************************************)
\* create_dirs returned PAM_SUCCESS for the entry of log[k], before log[k]
MaterializedBefore(k) ==
    \E j \in 1..(k-1) :
       log[j].op = "create_dirs" /\ log[j].rule = log[k].rule /\ log[j].res = "ok"
SameOwnerGroupMode(a, b) ==
    a.uid = b.uid /\ a.gid = b.gid /\ a.mode % 4096 = b.mode % 4096

\* C17: whenever create_dirs succeeds for an entry, the directory being new
\* or there already, the instance directory that is bind-mounted has the
\* owner, the group and the permission bits of the directory it is mounted on.
C17_InstanceAttrsMatchTarget ==
    InOpen =>
      \A k \in DOMAIN log :
         (IsBindMount(log[k]) /\ log[k].res = "ok" /\ MaterializedBefore(k)
            /\ log[k].src \in DOMAIN fs) =>
            SameOwnerGroupMode(fs[log[k].src], fs[log[k].path])
(***************************************************************************)
(* C18.                                                                    *)
(***************************************************************************)
\* "$HOME /i/h- user": a bind-mounted entry on a directory root does not own
LineHomeUser == <<sHOME, <<"/","i","/","h","-">>, kwUser>>

InitMat ==
    InitWith({nAnn}, {NULL}, {0}, {PwBase},
             {[fopen_ok |-> TRUE, lines |-> l] :
                 l \in SeqsUpTo({LineHomeUser, LineVarTmpdir}, MaxLines)},
             {pTmp}, {"off", "on"})
SpecMat == InitMat /\ [][Next]_vars

\* log[k]: the instance directory was made in this call
CreatedAt(k) == log[k].op \in {"mkdir", "mkdtemp"} /\ log[k].res = "ok"
\* the return of the create_dirs call that log[k] belongs to
ReturnOf(k) ==
    CHOOSE r \in (k+1)..Len(log) :
       /\ log[r].op = "create_dirs"
       /\ \A j \in (k+1)..(r-1) : log[j].op # "create_dirs"
\* that call went as far as the init script
HookReached(k) == \E j \in (k+1)..ReturnOf(k) : log[j].op = "inst_init"
RemovedAt(k, path) ==
    log[k].op = "rmdir" /\ log[k].path = path /\ log[k].res = "ok"

\* C18: when create_dirs has made the instance directory and a later step
\* short of the init script fails (open, fsetfilecon, fstat, fchown, fchmod),
\* the directory is removed and PAM_SESSION_ERR is returned; a directory
\* that was there before the call (mkdir failing with EEXIST) is never
\* removed by create_dirs.
C18_NewDirRemovedOnFailure ==
    InOpen =>
      /\ \A k \in DOMAIN log :
            (CreatedAt(k) /\ ~HookReached(k)) =>
               /\ log[ReturnOf(k)].res = "fail"
               /\ RemovedAt(ReturnOf(k) - 1, log[k].path)
               /\ log[k].path \notin DOMAIN fs
               /\ retval = PAM_SESSION_ERR
               /\ pc = "opened" => result = "PAM_SESSION_ERR"
      /\ \A k \in DOMAIN log :
            (log[k].op = "mkdir" /\ log[k].res = "EEXIST") =>
               /\ log[k].path \in DOMAIN fs
               /\ \A j \in DOMAIN log : ~RemovedAt(j, log[k].path)
      /\ \A k \in DOMAIN log :
            log[k].op = "rmdir" =>
               \E j \in 1..(k-1) :
                  CreatedAt(j) /\ log[j].path = log[k].path /\ log[j].rule = log[k].rule

\* the directory was made, fchown failed, the directory was removed and the
\* open call returned the error
C18_Witness ==
    /\ Returned("PAM_SESSION_ERR")
    /\ \E k \in DOMAIN log :
          /\ CreatedAt(k) /\ log[k].op = "mkdir"
          /\ \E j \in (k+1)..Len(log) :
                /\ log[j].op = "fchown" /\ log[j].res = "fail"
                /\ log[j].path = log[k].path
                /\ RemovedAt(j + 1, log[k].path)
          /\ log[k].path \notin DOMAIN fs
(***************************************************************************)
(* C19.                                                                    *)
(***************************************************************************)
\* log[k]: mkdir found the instance directory there already
ExistedAt(k) == log[k].op = "mkdir" /\ log[k].res = "EEXIST"
\* the third argument given to the init script by every fork of the
\* create_dirs call that log[k] belongs to is flag
HookGiven(k, flag) ==
    \A j \in (k+1)..ReturnOf(k) : log[j].op = "fork" => log[j].src[3] = flag

\* C19: setting up an entry (not tmpdir) whose instance directory exists
\* already does not fail on that account (create_dirs returns what
\* inst_init returns), makes and removes no directory, and gives the init script "0" as its newly-created argument;
\* the run that makes the directory gives it "1".
C19_ExistingDirReused ==
    InOpen =>
      /\ \A k \in DOMAIN log :
            ExistedAt(k) =>
               /\ log[ReturnOf(k) - 1].op = "inst_init"
               /\ log[ReturnOf(k)].res = log[ReturnOf(k) - 1].res
               /\ \A j \in (k+1)..ReturnOf(k) : ~CreatedAt(j) /\ log[j].op # "rmdir"
               /\ HookGiven(k, <<"0">>)
               /\ polydirs[log[k].rule].method # TMPDIR
      /\ \A k \in DOMAIN log : CreatedAt(k) => HookGiven(k, <<"1">>)

\* the same line twice: the first entry made the directory and its script
\* was given "1", the second found it there and its script was given "0"
C19_Witness ==
    /\ Returned("PAM_SUCCESS")
    /\ \E k, m \in DOMAIN log :
          /\ CreatedAt(k) /\ log[k].rule = 1
          /\ \E j \in (k+1)..ReturnOf(k) : log[j].op = "fork" /\ log[j].src[3] = <<"1">>
          /\ ExistedAt(m) /\ log[m].rule = 2 /\ log[m].path = log[k].path
          /\ \E j \in (m+1)..ReturnOf(m) : log[j].op = "fork" /\ log[j].src[3] = <<"0">>
    /\ Len(mounts) = 2
(***************************************************************************)
(* C20.                                                                    *)
(***************************************************************************)
AccessAt(k, mode, res) ==
    log[k].op = "access" /\ log[k].src = <<mode>> /\ log[k].res = res
InstInitAt(k, res) == k \in DOMAIN log /\ log[k].op = "inst_init" /\ log[k].res = res

\* C20: inst_init returns PAM_SUCCESS without a fork when the init script
\* does not exist (access F_OK fails), and PAM_SESSION_ERR without a fork
\* when it exists and is not executable (access X_OK fails); a child is only
\* forked after both checks passed.
C20_NoScriptNoChild ==
    \A k \in DOMAIN log :
       /\ AccessAt(k, "F_OK", "fail") => InstInitAt(k + 1, "ok")
       /\ AccessAt(k, "X_OK", "fail") =>
             (InstInitAt(k + 1, "fail") /\ k > 1 /\ AccessAt(k - 1, "F_OK", "ok"))
       /\ log[k].op = "fork" =>
             (k > 2 /\ AccessAt(k - 1, "X_OK", "ok") /\ AccessAt(k - 2, "F_OK", "ok"))

\* one entry was set up with no script there, the next found a script that
\* is not executable: open-session failed there, no child was forked
C20_Witness ==
    /\ Returned("PAM_SESSION_ERR")
    /\ \E j, k \in DOMAIN log :
          /\ AccessAt(j, "F_OK", "fail") /\ log[j].rule = 1
          /\ AccessAt(k, "X_OK", "fail") /\ log[k].rule = 2
    /\ \A k \in DOMAIN log : log[k].op # "fork"
(***************************************************************************)
(* C21.                                                                    *)
(***************************************************************************)
\* log[k] is the return of ns_setup for a tmpfs entry
TmpfsSetupAt(k) ==
    log[k].op = "ns_setup" /\ polydirs[log[k].rule].method = TMPFS
\* the mount of the entry of log[k], made before log[k]
MountOf(k) ==
    CHOOSE m \in 1..(k-1) : log[m].op = "mount" /\ log[m].rule = log[k].rule
MaterializeOps == {"mkdir", "mkdtemp", "create_dirs", "rmdir", "fsetfilecon",
                   "fchown", "fchmod"}

\* C21: for a tmpfs entry that is set up, open-session mounts tmpfs on the
\* directory first and runs the init script afterwards, with "1" as its
\* newly-created argument; no instance name is needed and no instance
\* directory is made; when the mount fails the script is not run and
\* ns_setup fails.
C21_TmpfsMountThenHook ==
    InOpen =>
      \A k \in DOMAIN log :
         TmpfsSetupAt(k) =>
            /\ \E m \in 1..(k-1) : log[m].op = "mount" /\ log[m].rule = log[k].rule
            /\ log[MountOf(k)].src = sTmpfs
            /\ log[MountOf(k)].path = polydirs[log[k].rule].dir
            /\ \A j \in DOMAIN log :
                  log[j].rule = log[k].rule => log[j].op \notin MaterializeOps
            /\ \A j \in 1..(MountOf(k) - 1) :
                  log[j].rule = log[k].rule => log[j].op \in UnmountOps
            /\ IF log[MountOf(k)].res = "ok"
               THEN /\ log[k-1].op = "inst_init" /\ log[k].res = log[k-1].res
                    /\ \A j \in (MountOf(k)+1)..(k-1) :
                          /\ log[j].op \in {"access", "fork", "inst_init"}
                          /\ log[j].op = "fork" =>
                                (log[j].src[3] = <<"1">> /\ log[j].src[2] = sTmpfs)
               ELSE k = MountOf(k) + 1 /\ log[k].res = "fail"
            /\ fs = InitFs \/ \E j \in DOMAIN log : log[j].rule # log[k].rule
                                                     /\ log[j].op \in MaterializeOps

\* tmpfs was mounted on the home directory, then the script ran with "1"
C21_Witness ==
    /\ Returned("PAM_SUCCESS")
    /\ \E m \in DOMAIN log :
          /\ log[m].op = "mount" /\ log[m].src = sTmpfs /\ log[m].res = "ok"
          /\ log[m].path = pHomeAnn
          /\ m + 3 \in DOMAIN log
          /\ log[m+3].op = "fork" /\ log[m+3].src[3] = <<"1">> /\ log[m+3].res = "exit0"
    /\ Mounted(pHomeAnn)
(***************************************************************************)
(* C22.                                                                    *)
(***************************************************************************)
\* log[k] is an unmount of the apply loop that failed with EINVAL / with
\* another errno
UmountEinvalAt(k) == log[k].op = "umount" /\ log[k].res = "EINVAL"
UmountOtherErrAt(k) == log[k].op = "umount" /\ log[k].res \notin {"ok", "EINVAL"}

\* C22: in the apply loop of open-session an unmount that fails with EINVAL
\* does not abort: an entry whose disposition has a mount step goes on to
\* ns_setup right after the unmount, an unmount-only entry is passed without
\* a failure.  An unmount that fails with any other errno ends the loop: the
\* entry gets no ns_setup, nothing but the removals of cleanup_tmpdirs
\* follows, no later entry is processed, and open-session returns
\* PAM_SESSION_ERR.
C22_EinvalToleratedOthersAbort ==
    InOpen =>
      \A k \in DOMAIN log :
         /\ UmountEinvalAt(k) =>
              /\ Remount(log[k].rule) =>
                    /\ k < Len(log)
                    /\ log[k+1].rule = log[k].rule
                    /\ log[k+1].op \in SetupOps
                    /\ Did(log[k].rule, {"ns_setup"})
              /\ UnmountOnly(log[k].rule) =>
                    /\ Passed(log[k].rule)
                    /\ ~Did(log[k].rule, SetupOps)
              /\ Remount(log[k].rule) \/ UnmountOnly(log[k].rule)
         /\ UmountOtherErrAt(k) =>
              /\ idx = log[k].rule
              /\ pc # "apply"
              /\ retval = PAM_SESSION_ERR
              /\ ~Did(log[k].rule, SetupOps)
              /\ \A j \in (k+1)..Len(log) : log[j].op = "rm"
              /\ \A i \in (log[k].rule + 1)..Len(polydirs) : ~DidAnything(i)
              /\ pc = "opened" => result = "PAM_SESSION_ERR"

\* the first entry was mounted after its unmount failed with EINVAL, the
\* unmount of the second failed with EBUSY and open-session returned
C22_Witness ==
    /\ Returned("PAM_SESSION_ERR")
    /\ \E k \in DOMAIN log :
          /\ UmountEinvalAt(k) /\ log[k].rule = 1
          /\ \E m \in (k+1)..Len(log) :
                log[m].op = "mount" /\ log[m].rule = 1 /\ log[m].res = "ok"
    /\ \E k \in DOMAIN log :
          /\ log[k].op = "umount" /\ log[k].res = "EBUSY" /\ log[k].rule = 2
          /\ k = Len(log)
    /\ \E m \in DOMAIN mounts : mounts[m].rule = 1
(***************************************************************************)
(* C23.                                                                    *)
(***************************************************************************)
\* "/tmp /i/t- tmpdir": a second entry of the tmpdir method, for every user
LineTmpTmpdir == <<pTmp, <<"/","i","/","t","-">>, kwTmpdir>>
\* the instance_prefix of LineVarTmpdir as process_line leaves it (247-254)
pVarTemplate == <<"/","i","/","v","-">> \o sXXXXXX

\* sessions of ann and bob over files of tmpdir lines; a directory that has
\* the name of the template of the /var line may exist at the start
InitTmpdir ==
    /\ sess \in [user_name : {nAnn, nBob}, ruser : {NULL}, real_uid : {0},
                 pw : {PwBase},
                 cfg : {[fopen_ok |-> TRUE, lines |-> l] :
                           l \in SeqsUpTo({LineVarTmpdir, LineTmpTmpdir}, MaxLines)},
                 selinux : {"off"}]
    /\ pc = "idle"
    /\ idata = [flags |-> InitFlags(FALSE, FALSE), user |-> <<>>, uid |-> 0,
                polydirs_ptr |-> "NULL"]
    /\ unmnt = NO_UNMNT
    /\ req_uid = 0
    /\ idx = 0
    /\ retval = 0
    /\ polydirs = <<>>
    /\ frees = 0
    /\ slot = "NULL"
    /\ fs \in {InitFs, FsAdd(InitFs, pVarTemplate, PreAttr)}
    /\ mounts = <<>>
    /\ cwd = pTmp
    /\ log = <<>>
    /\ result = "none"
    /\ sigchld = SigchldDefault
SpecTmpdir == InitTmpdir /\ [][Next]_vars

\* the apply loop of open-session ended on a failure and cleanup_tmpdirs ran
SetupFailedAndCleaned == pc \in {"ret", "opened"} /\ idx >= 1 /\ retval # PAM_SUCCESS
\* log[k]: mkdtemp made the directory of a tmpdir entry
TmpdirCreatedAt(k) == log[k].op = "mkdtemp" /\ log[k].res = "ok"
\* cleanup_tmpdirs forked, or tried to fork, an rm of path
RemovalAttempted(path) == \E j \in DOMAIN log : log[j].op = "rm" /\ log[j].path = path

\* C23: when the apply loop of open-session fails, every directory that
\* mkdtemp made for a tmpdir entry in this call, and that create_dirs did not
\* already take away, gets an rm from cleanup_tmpdirs before open-session
\* returns.
C23_CreatedTmpdirCleanedOnFailure ==
    (InOpen /\ SetupFailedAndCleaned) =>
       \A k \in DOMAIN log :
          TmpdirCreatedAt(k) =>
             (log[k].path \in DOMAIN fs => RemovalAttempted(log[k].path))
(***************************************************************************)
(* C24.                                                                    *)
(***************************************************************************)
\* path ends with the six X of an unfilled template
IsTemplate(path) ==
    Len(path) >= 6 /\ SubSeq(path, Len(path) - 5, Len(path)) = sXXXXXX
\* log[k]: cleanup_tmpdirs ran rm on a directory
RmAt(k) == log[k].op = "rm"

\* C24: cleanup_tmpdirs, after a failed setup and at close, runs rm only on
\* directories that mkdtemp made for a tmpdir entry of this session: never
\* on the instance_prefix of an entry that still holds the unfilled template
\* (an entry that was skipped or never reached), and, in open-session, only
\* on a path that mkdtemp returned earlier in the call.
C24_CleanupOnlyCreated ==
    \A k \in DOMAIN log :
       RmAt(k) =>
          /\ ~IsTemplate(log[k].path)
          /\ polydirs[log[k].rule].method = TMPDIR
          /\ InOpen => \E j \in 1..(k-1) : TmpdirCreatedAt(j) /\ log[j].path = log[k].path
(***************************************************************************)
(* C25.                                                                    *)
(***************************************************************************)
\* entry i is a tmpdir entry whose instance_prefix create_dirs filled in at
\* open and whose directory is on disk
TmpdirFilled(i) ==
    /\ polydirs[i].method = TMPDIR
    /\ ~IsTemplate(polydirs[i].instance_prefix)
    /\ polydirs[i].instance_prefix \in DOMAIN fs
\* the position in the log of close-session of the unmount of entry i
UnmountedAtClose(i, k) ==
    log[k].rule = i /\ log[k].op = "umount" /\ log[k].res = "ok"
           /\ log[k].path = polydirs[i].dir

\* C25: when close-session has returned after unmounting the target of a
\* tmpdir entry that open-session filled in and mounted, then, unless the
\* directory is gone, cleanup_tmpdirs ran rm after that unmount on the
\* filled-in path the entry carries.
C25_CloseUnmountsThenRemoves ==
    pc = "closed" =>
       \A i \in DOMAIN polydirs : \A k \in DOMAIN log :
          (TmpdirFilled(i) /\ UnmountedAtClose(i, k)) =>
             \E j \in (k+1)..Len(log) :
                RmAt(j) /\ log[j].path = polydirs[i].instance_prefix
(***************************************************************************)
(* C26.  poly_name on names about as long as NAMESPACE_MAX_DIR_LEN.        *)
(***************************************************************************)
\* a user name of n characters
NameOfLen(n) == [i \in 1..n |-> "a"]
NameLens == {1, 46, 47, 48, 76, 77, 78, 79, 80, 81, 82, 120}
RawCons == {<<"s","0">>}

\* the state in which ns_setup calls poly_name (1003-1009) for the only
\* entry of the list: every method with a name, every length of NameLens,
\* with and without gen_hash and SELinux
InitName ==
    /\ sess \in [user_name : {NameOfLen(n) : n \in NameLens}, ruser : {NULL},
                 real_uid : {0}, pw : {PwBase},
                 cfg : {[fopen_ok |-> TRUE, lines |-> <<>>]},
                 selinux : {"off", "ctxt"}]
    /\ pc = "apply"
    /\ \E gh \in BOOLEAN :
          idata = [flags |-> [InitFlags(sess.selinux # "off", sess.selinux = "ctxt")
                                EXCEPT !.gen_hash = gh],
                   user |-> sess.user_name, uid |-> 1000, polydirs_ptr |-> "list"]
    /\ unmnt = NO_UNMNT
    /\ req_uid = 0
    /\ idx = 1
    /\ retval = 0
    /\ \E m \in {USER, CONTEXT, LEVEL} :
          polydirs = <<[dir |-> pTmp, instance_prefix |-> <<"/","i","/","t","-">>,
                        method |-> m, num_uids |-> 0, uid |-> <<>>,
                        exclusive |-> FALSE]>>
    /\ frees = 0
    /\ slot = "list"
    /\ fs = InitFs
    /\ mounts = <<>>
    /\ cwd = pTmp
    /\ log = <<>>
    /\ result = "none"
    /\ sigchld = SigchldDefault

\* ns_setup, 1003-1010: the call of poly_name; the name it returns is
\* recorded, with the plain name it was made from
PolyNameStep ==
    /\ pc = "apply"
    /\ log = <<>>
    /\ \E rawcon \in RawCons :
         \E pn \in {poly_name(polydirs[idx], idata.user, idata.flags,
                              [ok |-> TRUE, rawcon |-> rawcon])} :
            /\ log' = Tag(<<Ev("poly_name", pn.i_name,
                               IF polydirs[idx].method = USER THEN idata.user
                               ELSE rawcon \o <<"_">> \o idata.user,
                               IF pn.rc = PAM_SUCCESS THEN "ok" ELSE "fail")>>, idx)
            /\ retval' = pn.rc
    /\ pc' = "out"
    /\ UNCHANGED <<sess, sigchld, idata, unmnt, req_uid, idx, polydirs, frees, slot, fs,
                   mounts, cwd, result>>

SpecName == InitName /\ [][PolyNameStep]_vars

\* log[k]: poly_name returned a name
NamedAt(k) == log[k].op = "poly_name" /\ log[k].res = "ok"
HashLen == 2 * MD5_DIGEST_LENGTH
CutLen == NAMESPACE_MAX_DIR_LEN - 1 - HashLen
IsHex(s) == \A c \in DOMAIN s : \E h \in DOMAIN HexDigits : s[c] = HexDigits[h]

\* C26: for an entry of the user, context or level method the instance name
\* is never longer than NAMESPACE_MAX_DIR_LEN: under gen_hash it is the 32
\* hexadecimal characters of the digest of the plain name; otherwise a plain
\* name longer than NAMESPACE_MAX_DIR_LEN becomes its first characters, "_"
\* and the 32 characters of the digest, NAMESPACE_MAX_DIR_LEN characters in
\* all, and a plain name within NAMESPACE_MAX_DIR_LEN is kept as it is.
C26_InstanceNameBounded ==
    \A k \in DOMAIN log :
       NamedAt(k) =>
          /\ Len(log[k].path) <= NAMESPACE_MAX_DIR_LEN
          /\ idata.flags.gen_hash =>
                /\ log[k].path = md5hash(log[k].src)
                /\ Len(log[k].path) = HashLen
                /\ IsHex(log[k].path)
          /\ (~idata.flags.gen_hash /\ Len(log[k].src) > NAMESPACE_MAX_DIR_LEN) =>
                /\ Len(log[k].path) = NAMESPACE_MAX_DIR_LEN
                /\ SubSeq(log[k].path, 1, CutLen) = SubSeq(log[k].src, 1, CutLen)
                /\ log[k].path[CutLen + 1] = "_"
                /\ SubSeq(log[k].path, CutLen + 2, NAMESPACE_MAX_DIR_LEN)
                      = md5hash(log[k].src)
                /\ IsHex(md5hash(log[k].src))
          /\ (~idata.flags.gen_hash /\ Len(log[k].src) <= NAMESPACE_MAX_DIR_LEN) =>
                log[k].path = log[k].src

\* a context entry of a user with a name of 78 characters: the plain name
\* has 81 and the name returned is the shortened one
C26_Witness ==
    /\ ~idata.flags.gen_hash
    /\ idata.user = NameOfLen(78)
    /\ \E k \in DOMAIN log :
          /\ NamedAt(k)
          /\ polydirs[log[k].rule].method = CONTEXT
          /\ Len(log[k].src) = NAMESPACE_MAX_DIR_LEN + 1
          /\ Len(log[k].path) = NAMESPACE_MAX_DIR_LEN
          /\ log[k].path # log[k].src
(***************************************************************************)
(* C27.                                                                    *)
(***************************************************************************)
NamespaceOps == {"mount", "umount", "chdir"}
UnshareOkBefore(k) ==
    \E u \in 1..(k-1) : log[u].op = "unshare" /\ log[u].res = "ok"
StoredBefore(k) ==
    \E s \in 1..(k-1) : log[s].op = "set_data" /\ log[s].res = "ok"
StoreFailedAt(k) == log[k].op = "set_data" /\ log[k].res = "fail"

\* C27: open-session mounts, unmounts and changes the working directory only
\* after unshare has succeeded in the same call; unshare is called only after
\* pam_set_data has stored the list; when pam_set_data fails unshare is not
\* called, nothing follows in setup_namespace, no mount is made, the working
\* directory is the one at the start, and open-session does not succeed.
C27_UnshareGuardsNamespaceOps ==
    InOpen =>
      /\ \A k \in DOMAIN log :
            /\ log[k].op \in NamespaceOps => UnshareOkBefore(k)
            /\ log[k].op = "unshare" => StoredBefore(k)
            /\ StoreFailedAt(k) =>
                  /\ k = Len(log)
                  /\ \A j \in DOMAIN log : log[j].op # "unshare"
                  /\ retval = PAM_SYSTEM_ERR
                  /\ pc \in {"ret", "opened"}
                  /\ pc = "opened" => result = "PAM_SYSTEM_ERR"
      /\ (mounts # <<>> \/ cwd # pTmp) => UnshareOkBefore(Len(log) + 1)

\* open-session returned after unshare, a change of the working directory,
\* an unmount and a mount
C27_Witness ==
    /\ Returned("PAM_SUCCESS")
    /\ cwd # pTmp
    /\ mounts # <<>>
    /\ \E u \in DOMAIN log :
          /\ log[u].op = "unshare" /\ log[u].res = "ok"
          /\ \E c, n, m \in (u+1)..Len(log) :
                /\ c < n /\ n < m
                /\ log[c].op = "chdir" /\ log[c].res = "ok"
                /\ log[n].op = "umount"
                /\ log[m].op = "mount" /\ log[m].res = "ok"
(***************************************************************************)
(* C28.                                                                    *)
(***************************************************************************)
pTmpSub == pTmp \o <<"/","d">>
\* "/tmpx": a sibling of /tmp whose name starts with the characters of /tmp
pTmpx == pTmp \o <<"x">>

\* sessions that start in /tmp, below it, beside it and elsewhere
InitCwd ==
    InitWith({nAnn, nBob}, {NULL}, {0}, {PwBase},
             {[fopen_ok |-> TRUE, lines |-> l] :
                 l \in SeqsUpTo({LineTmpUser, LineVarTmpdir}, MaxLines)},
             {pTmp, pTmpSub, pTmpx, pVar}, {"off"})
SpecCwd == InitCwd /\ [][Next]_vars

\* c is the directory d or lies below it
InsideDir(c, d) ==
    /\ Len(c) >= Len(d)
    /\ SubSeq(c, 1, Len(d)) = d
    /\ Len(c) = Len(d) \/ d = pRoot \/ c[Len(d) + 1] = "/"
\* the position of the getcwd that precedes the umount at log[k]
GetcwdPos(k) == IF log[k-1].op = "chdir" THEN k - 2 ELSE k - 1

\* C28: before an unmount of the apply loop, chdir to the parent of the
\* target is called exactly when the working directory is the target or
\* lies below it; from a working directory outside the target, a sibling
\* whose name starts with the characters of the target included, no chdir is
\* made.
C28_ChdirIffInside ==
    InOpen =>
      \A k \in DOMAIN log :
         log[k].op = "umount" =>
            /\ GetcwdPos(k) >= 1
            /\ log[GetcwdPos(k)].op = "getcwd"
            /\ (log[k-1].op = "chdir")
                  <=> InsideDir(log[GetcwdPos(k)].path, log[k].path)
            /\ log[k-1].op = "chdir" => log[k-1].path = poly_parent(log[k].path)
(***************************************************************************)
(* C29.                                                                    *)
(***************************************************************************)
\* a handler the application installed with signal(), and one it installed
\* with sigaction and flags of its own
SigchldBySignal == [handler |-> "handler", flags |-> SignalFlags]
SigchldBySigaction == [handler |-> "handler", flags |-> {"SA_SIGINFO", "SA_NOCLDSTOP"}]

\* sessions of applications with each of these actions for SIGCHLD
InitSig ==
    /\ sess \in [user_name : {nAnn, nBob}, ruser : {NULL}, real_uid : {0},
                 pw : {PwBase},
                 cfg : {[fopen_ok |-> TRUE, lines |-> l] :
                           l \in SeqsUpTo({LineTmpUser, LineVarTmpdir}, MaxLines)},
                 selinux : {"off"}]
    /\ pc = "idle"
    /\ idata = [flags |-> InitFlags(FALSE, FALSE), user |-> <<>>, uid |-> 0,
                polydirs_ptr |-> "NULL"]
    /\ unmnt = NO_UNMNT
    /\ req_uid = 0
    /\ idx = 0
    /\ retval = 0
    /\ polydirs = <<>>
    /\ frees = 0
    /\ slot = "NULL"
    /\ fs = InitFs
    /\ mounts = <<>>
    /\ cwd = pTmp
    /\ log = <<>>
    /\ result = "none"
    /\ sigchld \in {SigchldDefault, SigchldBySignal, SigchldBySigaction}
SpecSig == InitSig /\ [][Next]_vars

\* C29: inst_init and cleanup_tmpdirs leave the action for SIGCHLD as they
\* found it, on every return path: no step of open-session or close-session,
\* each of which holds at most one call of either, changes it.
C29_SigchldRestored == [][sigchld' = sigchld]_vars
(***************************************************************************)
(* C30.                                                                    *)
(***************************************************************************)
\* "/tmp /i/t- bogus": a method process_line does not know
LineBogus == <<pTmp, <<"/","i","/","t","-">>, <<"b","o","g","u","s">>>>

InitNone ==
    InitWith({nAnn, nBob}, {NULL}, {0}, {PwBase},
             {[fopen_ok |-> TRUE, lines |-> l] :
                 l \in SeqsUpTo({LineVarTmpdir, LineTmpTmpdir, LineBogus}, MaxLines)},
             {pTmp}, {"off"})
SpecNone == InitNone /\ [][Next]_vars

C31_ListReleasedOnceSlotLive ==
    /\ frees <= 1
    /\ slot = "list" => frees = 0
(***************************************************************************)
(* C32.                                                                    *)
(***************************************************************************)
\* close-session is in or past the loop of orig_namespace, after an
\* open-session that returned PAM_SUCCESS (result still holds its return)
ClosingAfterSuccess ==
    pc \in {"close_loop", "close_cleanup", "close_end"} /\ result = "PAM_SUCCESS"
\* open-session, having succeeded, mounted entry i: its disposition had a
\* mount step
OpenMounted(i) == Remount(i) \/ MountOnly(i)

\* C32: after an open-session that returned PAM_SUCCESS, close-session
\* without no_unmount_on_close calls umount only on the targets of the
\* entries open-session mounted, never on the target of an entry it skipped
\* or only unmounted, and, when its loop runs to the end, on all of them.
C32_CloseUnmountsWhatOpenMounted ==
    ClosingAfterSuccess =>
       /\ \A k \in DOMAIN log :
             log[k].op = "umount" => OpenMounted(log[k].rule)
       /\ pc = "close_cleanup" =>
             \A i \in DOMAIN polydirs : OpenMounted(i) => Did(i, {"umount"})
(***************************************************************************)
(* C33.                                                                    *)
(***************************************************************************)
\* mounts[m] is a bind mount that an entry before the failing one made and
\* that is still in place
EarlierBindMount(m) == mounts[m].rule < idx /\ mounts[m].src # sTmpfs

\* C33: when open-session has failed at an entry and cleanup_tmpdirs has
\* run, the instance directory behind every bind mount that an earlier entry
\* made and that is left in place is still there.
C33_MountedInstanceKept ==
    (InOpen /\ SetupFailedAndCleaned) =>
       \A m \in DOMAIN mounts :
          EarlierBindMount(m) => mounts[m].src \in DOMAIN fs
(***************************************************************************)
(* C34.                                                                    *)
(***************************************************************************)
HasArg(argv, word) == \E i \in DOMAIN argv : argv[i] = word

\* what the argument loop of pam_sm_open_session returns for argv in this
\* session: PAM_SESSION_ERR when it returns from the entry point, 0 when
\* open-session goes on to the user lookup and the config load
ArgsReturn(argv) ==
    OpenArgs(argv, 1, InitFlags(sess.selinux # "off", sess.selinux = "ctxt"),
             NO_UNMNT).rv

\* C34: open-session given require_selinux returns PAM_SESSION_ERR from the
\* argument loop if and only if SELinux is disabled; with SELinux enabled
\* the argument causes no failure and the loop runs to its end.
C34_RequireSelinuxFailsIffDisabled ==
    \A argv \in OpenArgvs :
       HasArg(argv, "require_selinux") =>
          (ArgsReturn(argv) = PAM_SESSION_ERR <=> sess.selinux = "off")
====
